---- MODULE Spec2Model ----
(***************************************************************************)
(* Trend-detection pipeline of services/trend_detection_service.py:        *)
(* analyze_symbol fetches daily bars, adds indicators, labels the rows,    *)
(* trains one of two classifier backends on a chronological split, scores  *)
(* the latest feature row and attaches the fair-value report; the trend    *)
(* route turns the outcome into an HTTP status.                            *)
(*                                                                         *)
(* Prices are integers.  A bar is [timestamp, close, aux]; aux says        *)
(* whether the optional columns vwap / trade_count of the bar are present  *)
(* (alpaca_service.get_bars stores None for them otherwise, and every      *)
(* dropna() of the pipeline then drops the row).                           *)
(* The fitted estimators are opaque: a fitted model is known by its        *)
(* classes_, predict returns one of them, predict_proba one probability    *)
(* per class of classes_, in units of 1/ProbScale.                         *)
(***************************************************************************)
EXTENDS Integers, Sequences, FiniteSets, TLC

(* ------------------------------ bounds --------------------------------- *)
\* a price path is made of at most MaxSegs segments of constant daily move
MaxSegs == 3
\* the provider returns at most MaxBars bars
MaxBars == 140
\* predict_proba returns multiples of 1/ProbScale
ProbScale == 2

\* the requests with a failing provider or an arbitrary profile string use
\* price paths of at most RequestSegs segments
RequestSegs == 2

\* lengths a segment of the price path may have
SegLens == {1, 50, 60}
\* daily move of a segment: one level down, flat, one level up
SegDirs == {-1, 0, 1}
\* rows (timestamps) whose vwap / trade_count are missing: none, or 60..80
Gaps == {<<0, 0>>, <<60, 80>>}

(* -------------------------- program constants -------------------------- *)
\* TREND_FUTURE_DAYS
TREND_FUTURE_DAYS == 3
\* TREND_UP_THRESHOLD and TREND_DOWN_THRESHOLD, in thousandths
TREND_UP_THRESHOLD == 10
TREND_DOWN_THRESHOLD == -10
\* thresholds are compared in thousandths
ThresholdScale == 1000
\* _train_model: len(df) < 50
MinSamples == 50
\* the largest indicator window (EMA50): the first 49 rows have no EMA50
MaxWindow == 50
\* calculate_fair_value: len(df) < 20, and the rolling(20) columns
FairValueMinBars == 20
\* train_test_split(test_size=0.2): one row in TestDen goes to the test part
TestDen == 5

(* ------------------------------ inputs --------------------------------- *)
\* price of level 0, and the divisor of one daily move (1/200 = 0.5 %)
BasePrice == 10000
StepDiv == 200

\* one daily move of the price: +0.5 % up, and the move that undoes it down
Move(p, dir) ==
    IF dir = 1 THEN p + (p \div StepDiv) ELSE p - (p \div (StepDiv + 1))

\* the prices of the ten levels that follow price p in direction dir
TenLevels(p, dir) ==
    LET a1  == Move(p, dir)
        a2  == Move(a1, dir)
        a3  == Move(a2, dir)
        a4  == Move(a3, dir)
        a5  == Move(a4, dir)
        a6  == Move(a5, dir)
        a7  == Move(a6, dir)
        a8  == Move(a7, dir)
        a9  == Move(a8, dir)
        a10 == Move(a9, dir)
    IN  <<a1, a2, a3, a4, a5, a6, a7, a8, a9, a10>>

\* the prices of levels 0, 1, ..., n (dir = 1) or 0, -1, ..., -n (dir = -1)
RECURSIVE LevelPrices(_, _, _)
LevelPrices(acc, dir, n) ==
    IF Len(acc) > n THEN acc
    ELSE LevelPrices(acc \o TenLevels(acc[Len(acc)], dir), dir, n)

UpTable == LevelPrices(<<BasePrice>>, 1, MaxBars)
DownTable == LevelPrices(<<BasePrice>>, -1, MaxBars)
Price(k) == IF k >= 0 THEN UpTable[k + 1] ELSE DownTable[1 - k]

\* all price paths: sequences of at most MaxSegs segments <<length, move>>
Paths ==
    UNION {[1..n -> SegLens \X SegDirs] : n \in 0..MaxSegs}

RECURSIVE PathLen(_)
PathLen(p) == IF p = <<>> THEN 0 ELSE p[1][1] + PathLen(Tail(p))

\* the level of bar i of path p (bars 1..PathLen(p)), the path starting at
\* level `from` before bar `done + 1`
RECURSIVE LevelAt(_, _, _, _)
LevelAt(p, i, done, from) ==
    LET len == p[1][1]
        dir == p[1][2]
    IN  IF i <= done + len THEN from + dir * (i - done)
        ELSE LevelAt(Tail(p), i, done + len, from + dir * len)

\* the bars the provider holds for the symbol, ascending by timestamp
MakeBars(p, gap) ==
    [i \in 1..PathLen(p) |->
        [timestamp |-> i,
         close     |-> Price(LevelAt(p, i, 0, 0)),
         aux       |-> ~(gap[1] <= i /\ i <= gap[2])]]

Profiles == {"intradia", "corto", "largo"}
ModelTypes == {"rf", "xgboost"}

\* Python's None where a string is expected (an absent request parameter)
NoneValue == "None"
\* profile strings a request may carry: the three names, an absent or empty
\* parameter, other spellings of the names, and an unknown name
ProfileInputs ==
    Profiles \cup {NoneValue, "", "Intradia", "LARGO", "intradía", "swing"}
\* messages of the AlpacaServiceException that get_bars may raise
ProviderErrors == {"Error al obtener barras", "Error inesperado"}

VARIABLES
    pc,         \* the stage analyze_symbol has reached
    bars,       \* what get_bars returns for the symbol
    profile,    \* request parameter
    model_type, \* request parameter
    df_raw,     \* _build_df_from_bars
    df_ind,     \* _add_indicators
    params,     \* [profile_key, future_days, up_threshold, down_threshold]
    df_target,  \* _create_target
    split,      \* [X_train, X_test, y_train, y_test] of train_test_split
    train_result, \* the dict _train_model returns
    pred,       \* [pred_encoded, pred]: the prediction, raw and decoded
    proba_map,  \* probabilities
    fair_value, \* fair_value_data
    result,     \* the dict analyze_symbol returns
    outcome,    \* what analyze_symbol did: a result or the exception raised
    error,      \* message of the exception
    status,     \* HTTP status of the trend route
    provider_error, \* the AlpacaServiceException get_bars raises, if any
    get_bars_calls  \* number of calls of alpaca_service.get_bars

\* the variables of one analyze_symbol request
trendVars == <<pc, bars, profile, model_type, df_raw, df_ind, params,
               df_target, split, train_result, pred, proba_map, fair_value,
               result, outcome, error, status, provider_error,
               get_bars_calls>>

VARIABLES
    fv_pc,      \* the stage a calculate_fair_value call has reached
    fv_given,   \* the DataFrame the caller built
    fv_input,   \* the caller's DataFrame as it is now
    fv_df,      \* the local df of calculate_fair_value
    fv_out,     \* the dict calculate_fair_value returns
    fv_error,   \* message of the FairValueServiceException raised
    fv_calls,   \* calls of calculate_fair_value that have ended
    fv_first,   \* [out, error] of the first call
    sig_args,   \* the arguments of a _generate_signals call
    sig_out,    \* the dict _generate_signals returns
    creq,       \* concurrent analyze_symbol requests: the locals of each
    cheap,      \* the objects (DataFrames, model, encoder) they have built
    pref_db,    \* collection user_trend_preferences: user_id -> document
    pref_last,  \* per user, the arguments and the return value of the last
                \* set_preferences call that did not raise
    pref_got,   \* the last get_preferences call: [user_id, prefs], and the
                \* entry of pref_last it followed
    pref_ops,   \* calls of the preferences service so far
    ord_pc,     \* the stage a submit_order call has reached
    ord_in,     \* the Order passed to submit_order
    ord_request, \* the order request built for the broker
    ord_sent,   \* the requests the broker has received
    ord_out,    \* the Order submit_order returns
    ord_error,  \* message of the AlpacaServiceException raised: <<prefix,
                \* message of the exception it wraps>>, or <<>>
    SWING_AUTOTRADE_ENABLED, \* the configuration flag of the process
    utc_day,    \* datetime.utcnow().date(), as a day number
    auto_swing_state, \* <<user id, symbol>> -> the day recorded for the key
    user_callbacks, \* sids with a price callback, in insertion order
    user_symbols, \* sid -> the symbol its callback is registered for
    user_streams, \* user key -> the stream registered for the user
    user_stream_symbols, \* user key -> symbols the service has subscribed
    stream,     \* the bar streams created so far and their threads
    swing_orders, \* the bracket orders execute_signal has placed
    positions,  \* <<user id, symbol>> with an open position at the broker
    sub_ops,    \* subscribe_symbol / unsubscribe_symbol events so far
    authenticated, \* the sids with an entry in ws_clients
    client_subscriptions, \* sid -> the symbol recorded for the session
    disconnected, \* the sids whose disconnect handler has run
    sess_ops,   \* websocket events handled so far
    lock,       \* the holder of SwingBotService._lock
    unsub,      \* sid -> the stage of its unsubscribe_symbol_for_user call
    trade_call, \* the TradingService operation called and its arguments
    trade_pc,   \* the stage the operation has reached
    trade_checked, \* the validations the operation has passed
    trade_submitted, \* the calls of the broker service's order submission
    trade_out,  \* what the operation returns
    trade_error \* the exception it raises: <<type, message>>, or <<>>

\* the variables of a caller of calculate_fair_value
fvVars == <<fv_pc, fv_given, fv_input, fv_df, fv_out, fv_error, fv_calls,
            fv_first>>
\* the variables of a caller of _generate_signals
sigVars == <<sig_args, sig_out>>

\* the variables of concurrent analyze_symbol requests
concVars == <<creq, cheap>>

\* the variables of the trend preferences service and its callers
prefVars == <<pref_db, pref_last, pref_got, pref_ops>>

\* the variables of a submit_order call
ordVars == <<ord_pc, ord_in, ord_request, ord_sent, ord_out, ord_error>>

\* the variables of automatic swing trading on price updates
swingVars == <<SWING_AUTOTRADE_ENABLED, utc_day, auto_swing_state,
               user_callbacks, user_symbols, user_streams,
               user_stream_symbols, stream, swing_orders, positions,
               sub_ops>>

\* the variables of the websocket sessions and of the service lock
wsVars == <<authenticated, client_subscriptions, disconnected, sess_ops,
            lock, unsub>>

\* the variables of a TradingService call
tradeVars == <<trade_call, trade_pc, trade_checked, trade_submitted,
               trade_out, trade_error>>

\* the variables of the other services
otherVars == <<fvVars, sigVars, concVars, prefVars, ordVars, swingVars,
               wsVars, tradeVars>>

vars == <<trendVars, otherVars>>

\* Python's None: an absent dict, an absent encoder, no exception
None == [none |-> TRUE]
NoEncoder == <<>>
NoException == "none"

\* no fair-value call and no signals call is under way
FvIdle ==
    /\ fv_pc = "idle"
    /\ fv_given = None
    /\ fv_input = None
    /\ fv_df = None
    /\ fv_out = None
    /\ fv_error = NoException
    /\ fv_calls = 0
    /\ fv_first = None
SigIdle ==
    /\ sig_args = None
    /\ sig_out = None
ConcIdle ==
    /\ creq = <<>>
    /\ cheap = <<>>
PrefIdle ==
    /\ pref_db = <<>>
    /\ pref_last = <<>>
    /\ pref_got = None
    /\ pref_ops = 0
OrdIdle ==
    /\ ord_pc = "idle"
    /\ ord_in = None
    /\ ord_request = None
    /\ ord_sent = <<>>
    /\ ord_out = None
    /\ ord_error = <<>>
SwingIdle ==
    /\ SWING_AUTOTRADE_ENABLED = FALSE
    /\ utc_day = 0
    /\ auto_swing_state = <<>>
    /\ user_callbacks = <<>>
    /\ user_symbols = <<>>
    /\ user_streams = <<>>
    /\ user_stream_symbols = <<>>
    /\ stream = <<>>
    /\ swing_orders = <<>>
    /\ positions = {}
    /\ sub_ops = 0
WsIdle ==
    /\ authenticated = {}
    /\ client_subscriptions = <<>>
    /\ disconnected = {}
    /\ sess_ops = 0
    /\ lock = ""
    /\ unsub = <<>>
TradeIdle ==
    /\ trade_call = None
    /\ trade_pc = "idle"
    /\ trade_checked = None
    /\ trade_submitted = <<>>
    /\ trade_out = None
    /\ trade_error = <<>>
OtherIdle ==
    /\ FvIdle /\ SigIdle /\ ConcIdle /\ PrefIdle /\ OrdIdle /\ SwingIdle
    /\ WsIdle /\ TradeIdle

\* no single analyze_symbol request is under way
TrendIdle ==
    /\ pc = "done"
    /\ bars = <<>>
    /\ profile = "corto"
    /\ model_type = "xgboost"
    /\ df_raw = <<>>
    /\ df_ind = <<>>
    /\ params = None
    /\ df_target = <<>>
    /\ split = None
    /\ train_result = None
    /\ pred = None
    /\ proba_map = None
    /\ fair_value = None
    /\ result = None
    /\ outcome = NoException
    /\ error = NoException
    /\ status = 0
    /\ provider_error = NoException
    /\ get_bars_calls = 0

Init ==
    /\ OtherIdle
    /\ \E p \in Paths, gap \in Gaps :
          /\ PathLen(p) <= MaxBars
          /\ bars = MakeBars(p, gap)
    /\ profile \in Profiles
    /\ model_type \in ModelTypes
    /\ pc = "build_df"
    /\ df_raw = <<>>
    /\ df_ind = <<>>
    /\ params = None
    /\ df_target = <<>>
    /\ split = None
    /\ train_result = None
    /\ pred = None
    /\ proba_map = None
    /\ fair_value = None
    /\ result = None
    /\ outcome = NoException
    /\ error = NoException
    /\ status = 0
    /\ provider_error = NoException
    /\ get_bars_calls = 0

\* price paths of the requests of SpecRequest
RequestPaths == {p \in Paths : Len(p) <= RequestSegs}

\* a request whose provider may fail and whose profile is any string of
\* ProfileInputs; a failing provider returns no bars
InitRequest ==
    /\ OtherIdle
    /\ provider_error \in ProviderErrors \cup {NoException}
    /\ \E p \in RequestPaths, gap \in Gaps :
          /\ PathLen(p) <= MaxBars
          /\ bars = IF provider_error = NoException THEN MakeBars(p, gap)
                    ELSE <<>>
    /\ profile \in ProfileInputs
    /\ model_type \in ModelTypes
    /\ pc = "build_df"
    /\ df_raw = <<>>
    /\ df_ind = <<>>
    /\ params = None
    /\ df_target = <<>>
    /\ split = None
    /\ train_result = None
    /\ pred = None
    /\ proba_map = None
    /\ fair_value = None
    /\ result = None
    /\ outcome = NoException
    /\ error = NoException
    /\ status = 0
    /\ get_bars_calls = 0

(* --------------------------- pure operators ---------------------------- *)
Indices(s) == [i \in 1..Len(s) |-> i]

\* the rows of df at the positions idx, in that order
Rows(df, idx) == [k \in 1..Len(idx) |-> df[idx[k]]]

\* variant of IndicatorsDefined: the warm-up rows of the windows are kept
IndicatorsDefinedNoWarmup(df, i) == df[i].aux

\* _add_indicators: row i has all seven indicators once the longest window,
\* EMA50, is filled; dropna() also drops a row whose vwap / trade_count is None
IndicatorsDefined(df, i) == i >= MaxWindow /\ df[i].aux

AddIndicators(df) ==
    Rows(df, SelectSeq(Indices(df), LAMBDA i : IndicatorsDefined(df, i)))

\* str.lower() on the profile strings of ProfileInputs
Lower(s) ==
    CASE s = "Intradia" -> "intradia"
      [] s = "LARGO" -> "largo"
      [] OTHER -> s

\* Python truthiness of an optional string: None and "" are false
Falsy(s) == s \in {NoneValue, ""}

\* variant of ProfileParams: the else branch keeps the profile_key it was
\* given
ProfileParamsKeyKept(p) ==
    LET profile_key == Lower(IF Falsy(p) THEN "corto" ELSE p)
    IN  IF profile_key = "intradia"
        THEN [profile_key |-> "intradia", future_days |-> 1,
              up_threshold |-> 3, down_threshold |-> -3]
        ELSE IF profile_key = "largo"
        THEN [profile_key |-> "largo", future_days |-> 10,
              up_threshold |-> 30, down_threshold |-> -30]
        ELSE [profile_key |-> profile_key,
              future_days |-> TREND_FUTURE_DAYS,
              up_threshold |-> TREND_UP_THRESHOLD,
              down_threshold |-> TREND_DOWN_THRESHOLD]

\* the profile table of analyze_symbol, on
\* profile_key = (profile or "corto").lower()
ProfileParams(p) ==
    LET profile_key == Lower(IF Falsy(p) THEN "corto" ELSE p)
    IN  IF profile_key = "intradia"
        THEN [profile_key |-> "intradia", future_days |-> 1,
              up_threshold |-> 3, down_threshold |-> -3]
        ELSE IF profile_key = "largo"
        THEN [profile_key |-> "largo", future_days |-> 10,
              up_threshold |-> 30, down_threshold |-> -30]
        ELSE [profile_key |-> "corto", future_days |-> TREND_FUTURE_DAYS,
              up_threshold |-> TREND_UP_THRESHOLD,
              down_threshold |-> TREND_DOWN_THRESHOLD]

\* pct_change = (future_close - close) / close compared with a threshold given
\* in thousandths; close > 0, so the division is moved to the other side
PctAbove(close, future_close, thr) ==
    (future_close - close) * ThresholdScale > thr * close
PctBelow(close, future_close, thr) ==
    (future_close - close) * ThresholdScale < thr * close

\* variant of TrendOf: the up label is tested against the down threshold
TrendOfWrongThreshold(close, future_close, up, down) ==
    IF PctBelow(close, future_close, down) THEN -1
    ELSE IF PctAbove(close, future_close, down) THEN 1
    ELSE 0

\* trend = 0; trend = 1 where pct_change > up; trend = -1 where pct_change < down
\* (the last assignment wins)
TrendOf(close, future_close, up, down) ==
    IF PctBelow(close, future_close, down) THEN -1
    ELSE IF PctAbove(close, future_close, up) THEN 1
    ELSE 0

\* _create_target: shift(-future_days) leaves the last future_days rows without
\* future_close, and dropna() drops them
CreateTarget(df, future_days, up, down) ==
    [k \in 1..(IF Len(df) > future_days THEN Len(df) - future_days ELSE 0) |->
        [timestamp    |-> df[k].timestamp,
         close        |-> df[k].close,
         future_close |-> df[k + future_days].close,
         trend        |-> TrendOf(df[k].close, df[k + future_days].close,
                                  up, down)]]

\* train_test_split(test_size=0.2, shuffle=False): n_test = ceil(0.2 * n),
\* n_train = n - n_test, train = the first n_train rows, test = the rest
NTest(n) == (n + TestDen - 1) \div TestDen

\* variant of TrainTestSplit: the test rows are taken from the front
TrainTestSplitTestFirst(df) ==
    LET n      == Len(df)
        n_test == NTest(n)
    IN  [X_train |-> [k \in 1..(n - n_test) |-> df[n_test + k].timestamp],
         X_test  |-> [k \in 1..n_test |-> df[k].timestamp],
         y_train |-> [k \in 1..(n - n_test) |-> df[n_test + k].trend + 1],
         y_test  |-> [k \in 1..n_test |-> df[k].trend + 1]]

TrainTestSplit(df) ==
    LET n       == Len(df)
        n_train == n - NTest(n)
    IN  [X_train |-> [k \in 1..n_train |-> df[k].timestamp],
         X_test  |-> [k \in 1..(n - n_train) |-> df[n_train + k].timestamp],
         y_train |-> [k \in 1..n_train |-> df[k].trend + 1],
         y_test  |-> [k \in 1..(n - n_train) |-> df[n_train + k].trend + 1]]

\* np.sort(y.unique()): the distinct values, ascending
Range(s) == {s[i] : i \in 1..Len(s)}
SortedSeq(S) ==
    LET lo == -1
        hi == 2
    IN  SelectSeq([i \in 1..(hi - lo + 1) |-> lo + i - 1], LAMBDA v : v \in S)
Unique(s) == SortedSeq(Range(s))

\* variant of TooFewSamples: exactly 50 rows are refused too
TooFewSamplesOffByOne(df) == Len(df) <= MinSamples

\* len(df) < 50
TooFewSamples(df) == Len(df) < MinSamples

\* variant of TrainClasses: the classes of the whole labeled set
TrainClassesWhole(df, sp) == Unique([k \in 1..Len(df) |-> df[k].trend + 1])

\* the classes checked for variation: those of the training partition
TrainClasses(df, sp) == Unique(sp.y_train)

\* model_type_key in {"rf", "random_forest", "random-forest"}
IsRandomForest(mt) == mt \in {"rf", "random_forest", "random-forest"}

\* LabelEncoder: classes_ = sorted distinct labels; transform gives the index,
\* inverse_transform the label; transform raises ValueError on an unseen label
Transform(classes, y) == (CHOOSE i \in 1..Len(classes) : classes[i] = y) - 1
InverseTransform(classes, e) == classes[e + 1]
TransformRaises(classes, ys) == \E y \in Range(ys) : y \notin Range(classes)

\* the report of the xgboost branch: the placeholder when transform(y_test)
\* raises ValueError
XgbReport(classes, y_test) ==
    IF TransformRaises(classes, y_test) THEN "placeholder"
    ELSE "classification_report"

\* the dict _train_model returns once the sample and variation checks passed
FitModel(mt, sp, n) ==
    IF IsRandomForest(mt)
    THEN [model |-> [kind |-> "random_forest", classes |-> Unique(sp.y_train)],
          label_encoder |-> NoEncoder,
          report |-> "classification_report",
          n_samples |-> n,
          model_type |-> "random_forest"]
    ELSE LET classes == Unique(sp.y_train)
         IN  [model |-> [kind |-> "xgboost",
                         classes |-> [i \in 1..Len(classes) |->
                                         Transform(classes, classes[i])]],
              label_encoder |-> classes,
              report |-> XgbReport(classes, sp.y_test),
              n_samples |-> n,
              model_type |-> "xgboost"]

\* what model.predict may return: one of the classes the model was fitted on
Predictions(model) == Range(model.classes)

\* what predict_proba may return: one probability per class of the model
RECURSIVE SumSeq(_)
SumSeq(v) == IF v = <<>> THEN 0 ELSE v[1] + SumSeq(Tail(v))

ProbaVectors(k) == {v \in [1..k -> 0..ProbScale] : SumSeq(v) = ProbScale}

\* variant of Decode: the encoder's inverse mapping is forgotten
DecodeNoInverse(label_encoder, pred_encoded) == pred_encoded - 1

\* undo the encoding of the prediction: inverse_transform when there is an
\* encoder, then the shift by one
Decode(label_encoder, pred_encoded) ==
    IF label_encoder # NoEncoder
    THEN InverseTransform(label_encoder, pred_encoded) - 1
    ELSE pred_encoded - 1

\* the label shift of _train_model followed by the encoder, when there is one
Encode(label_encoder, trend) ==
    IF label_encoder # NoEncoder
    THEN Transform(label_encoder, trend + 1)
    ELSE trend + 1

TrendLabel(p) ==
    IF p = 1 THEN "Tendencia Alcista"
    ELSE IF p = -1 THEN "Tendencia Bajista"
    ELSE IF p = 0 THEN "Tendencia Lateral"
    ELSE "Desconocido"

ClassKeys == {"-1", "0", "1"}
Key(t) == IF t = -1 THEN "-1" ELSE IF t = 0 THEN "0" ELSE "1"

\* variant of FillMissing: absent classes are not added
FillMissingSkipped(m) == m

\* "for cls_key in [...]: if cls_key not in proba_map: proba_map[cls_key] = 0.0"
FillMissing(m) ==
    [k \in ClassKeys |-> IF k \in DOMAIN m THEN m[k] ELSE 0]

\* proba[i] keyed by the i-th of the given trends
KeyedBy(trends, proba) ==
    [k \in {Key(trends[i]) : i \in 1..Len(trends)} |->
        proba[CHOOSE i \in 1..Len(trends) : Key(trends[i]) = k]]

\* the xgboost branch of the probability map: keyed by the encoder's classes
XgbProbaMap(label_encoder, proba) ==
    FillMissing(KeyedBy([i \in 1..Len(label_encoder) |-> label_encoder[i] - 1],
                        proba))

\* the random-forest branch reads proba[i] for every class of the WHOLE labeled
\* set when proba has two entries: proba[2] is an IndexError with three classes
RfProbaRaises(proba, df) ==
    Len(proba) = 2 /\ Len(Unique([k \in 1..Len(df) |-> df[k].trend])) > Len(proba)

RfProbaMap(proba, df) ==
    IF Len(proba) >= 3
    THEN [k \in ClassKeys |->
             IF k = "-1" THEN proba[1] ELSE IF k = "0" THEN proba[2] ELSE proba[3]]
    ELSE FillMissing(KeyedBy(Unique([k \in 1..Len(df) |-> df[k].trend]), proba))

\* calculate_fair_value: the rows left by its dropna(): the rolling(20) columns
\* are filled, vwap / trade_count are present, and zscore is a number
\* (std20 = 0 gives 0/0)
ConstantWindow(df, i) ==
    \A j \in (i - FairValueMinBars + 1)..i : df[j].close = df[i].close

FairValueRowKept(df, i) ==
    /\ i >= FairValueMinBars
    /\ df[i].aux
    /\ ~ConstantWindow(df, i)

FairValueRows(df) ==
    SelectSeq(Indices(df), LAMBDA i : FairValueRowKept(df, i))

FairValueRaises(df) ==
    \/ Len(df) < FairValueMinBars
    \/ FairValueRows(df) = <<>>

CalculateFairValue(df) ==
    LET kept == FairValueRows(df)
    IN  [rows |-> Len(kept), current_price |-> df[kept[Len(kept)]].close]

(* ------------------------------ actions -------------------------------- *)
Raise(exc, msg) ==
    /\ pc' = "respond"
    /\ outcome' = exc
    /\ error' = msg

\* variant of WrapUpstream: analyze_symbol has no except clause, the
\* AlpacaServiceException leaves it as it is
WrapUpstreamUncaught(msg) ==
    [exc |-> "AlpacaServiceException", msg |-> msg]

\* except AlpacaServiceException as e:
\*     raise TrendDetectionServiceException(str(e))
WrapUpstream(msg) ==
    [exc |-> "TrendDetectionServiceException", msg |-> msg]

\* _build_df_from_bars: one call of alpaca_service.get_bars, which raises or
\* returns the bars; and the AlpacaServiceException wrapper around it
BuildDf ==
    /\ pc = "build_df"
    /\ get_bars_calls' = get_bars_calls + 1
    /\ IF provider_error # NoException
       THEN /\ Raise(WrapUpstream(provider_error).exc,
                     WrapUpstream(provider_error).msg)
            /\ UNCHANGED df_raw
       ELSE IF bars = <<>>
       THEN /\ Raise("TrendDetectionServiceException", "no bars")
            /\ UNCHANGED df_raw
       ELSE /\ df_raw' = bars
            /\ pc' = "add_indicators"
            /\ UNCHANGED <<outcome, error>>
    /\ UNCHANGED <<otherVars, provider_error, bars, profile,
                   model_type, df_ind, params, df_target,
                   split, train_result, pred, proba_map, fair_value, result, status>>

\* df_ind = self._add_indicators(df_raw); if df_ind.empty: raise
Indicators ==
    /\ pc = "add_indicators"
    /\ df_ind' = AddIndicators(df_raw)
    /\ IF df_ind' = <<>>
       THEN Raise("TrendDetectionServiceException", "no indicators")
       ELSE /\ pc' = "create_target"
            /\ UNCHANGED <<outcome, error>>
    /\ UNCHANGED <<otherVars, provider_error, get_bars_calls, bars, profile,
                   model_type, df_raw, params, df_target,
                   split, train_result, pred, proba_map, fair_value, result, status>>

\* the profile table, then df_target = self._create_target(...); if empty: raise
Target ==
    /\ pc = "create_target"
    /\ params' = ProfileParams(profile)
    /\ df_target' = CreateTarget(df_ind, params'.future_days,
                                 params'.up_threshold, params'.down_threshold)
    /\ IF df_target' = <<>>
       THEN Raise("TrendDetectionServiceException", "no trend series")
       ELSE /\ pc' = "train"
            /\ UNCHANGED <<outcome, error>>
    /\ UNCHANGED <<otherVars, provider_error, get_bars_calls, bars, profile,
                   model_type, df_raw, df_ind,
                   split, train_result, pred, proba_map, fair_value, result, status>>

\* _train_model: sample check, split, variation check, fit, report
Train ==
    /\ pc = "train"
    /\ IF TooFewSamples(df_target)
       THEN /\ Raise("TrendDetectionServiceException", "insufficient samples")
            /\ UNCHANGED <<split, train_result>>
       ELSE /\ split' = TrainTestSplit(df_target)
            /\ IF Len(TrainClasses(df_target, split')) < 2
               THEN /\ Raise("TrendDetectionServiceException",
                             "insufficient variation")
                    /\ UNCHANGED train_result
               ELSE /\ train_result' = FitModel(model_type, split',
                                                Len(df_target))
                    /\ pc' = "predict"
                    /\ UNCHANGED <<outcome, error>>
    /\ UNCHANGED <<otherVars, provider_error, get_bars_calls, bars, profile,
                   model_type, df_raw, df_ind, params,
                   df_target, pred, proba_map, fair_value, result, status>>

\* variant of LastRow: the first row is taken
LastRowHead(df) == df[1]

\* last_row = df_ind.tail(1)
LastRow(df) == df[Len(df)]

\* pred_encoded = model.predict(last_features)[0], decoded; last_row is the
\* row whose features are scored
Predict ==
    /\ pc = "predict"
    /\ \E pred_encoded \in Predictions(train_result.model) :
          pred' = [pred_encoded |-> pred_encoded,
                   pred |-> Decode(train_result.label_encoder, pred_encoded),
                   last_row |-> LastRow(df_ind).timestamp]
    /\ pc' = "proba"
    /\ UNCHANGED <<otherVars, provider_error, get_bars_calls, bars, profile,
                   model_type, df_raw, df_ind, params,
                   df_target, split, train_result, proba_map, fair_value,
                   result, outcome, error, status>>

\* proba = model.predict_proba(last_features)[0], keyed by the original classes
Proba ==
    /\ pc = "proba"
    /\ \E proba \in ProbaVectors(Len(train_result.model.classes)) :
          IF train_result.label_encoder # NoEncoder
          THEN /\ proba_map' = XgbProbaMap(train_result.label_encoder, proba)
               /\ pc' = "fair_value"
               /\ UNCHANGED <<outcome, error>>
          ELSE IF RfProbaRaises(proba, df_target)
          THEN /\ Raise("IndexError", "index out of bounds")
               /\ UNCHANGED proba_map
          ELSE /\ proba_map' = RfProbaMap(proba, df_target)
               /\ pc' = "fair_value"
               /\ UNCHANGED <<outcome, error>>
    /\ UNCHANGED <<otherVars, provider_error, get_bars_calls, bars, profile,
                   model_type, df_raw, df_ind, params,
                   df_target, split, train_result, pred, fair_value, result,
                   status>>

\* fair value of df_raw (a FairValueServiceException is swallowed), then the
\* result is returned
FairValue ==
    /\ pc = "fair_value"
    /\ fair_value' = IF FairValueRaises(df_raw) THEN None
                     ELSE CalculateFairValue(df_raw)
    /\ result' = [trend_code |-> pred.pred,
                   trend_label |-> TrendLabel(pred.pred),
                   probabilities |-> proba_map,
                   n_samples |-> train_result.n_samples,
                   classification_report |-> train_result.report,
                   model_type |-> train_result.model_type,
                   profile |-> params.profile_key,
                   future_days |-> params.future_days,
                   up_threshold |-> params.up_threshold,
                   down_threshold |-> params.down_threshold,
                   fair_value |-> fair_value']
    /\ outcome' = "result"
    /\ pc' = "respond"
    /\ UNCHANGED <<otherVars, provider_error, get_bars_calls, bars, profile,
                   model_type, df_raw, df_ind, params,
                   df_target, split, train_result, pred, proba_map, error,
                   status>>

\* variant of StatusOf: the route has no handler for the service's exception
StatusOfNoHandler(o) == IF o = "result" THEN 200 ELSE 500

\* the trend route: 200 with the result, 400 for a
\* TrendDetectionServiceException, 500 for any other exception
StatusOf(o) ==
    IF o = "result" THEN 200
    ELSE IF o = "TrendDetectionServiceException" THEN 400
    ELSE 500

Respond ==
    /\ pc = "respond"
    /\ status' = StatusOf(outcome)
    /\ pc' = "done"
    /\ UNCHANGED <<otherVars, provider_error, get_bars_calls, bars, profile,
                   model_type, df_raw, df_ind, params,
                   df_target, split, train_result, pred, proba_map,
                   fair_value, result, outcome, error>>

Next ==
    \/ BuildDf
    \/ Indicators
    \/ Target
    \/ Train
    \/ Predict
    \/ Proba
    \/ FairValue
    \/ Respond

Spec == Init /\ [][Next]_vars

\* the same request, with a provider that may fail and any profile string
SpecRequest == InitRequest /\ [][Next]_vars

(* --------------------------- fair value service ------------------------ *)
\* indicator values are kept in units of 1/FvScale of a price unit, the
\* zscore in tenths, truncated towards zero; NaN is the value pandas leaves
\* where a window is not full or a quotient is 0/0
FvScale == 100
NaN == -1000000

\* the frames a caller passes: FvLens rows around the price FvBase, flat or
\* alternating by FvSwing, the last close moved by one of FvLastMoves, high
\* and low one of FvSpreads away from the close, the last row with or without
\* its vwap
FvBase == 1000
FvSwing == 5
FvLens == {0, 10, 19, 20, 21, 24}
FvShapes == {"flat", "zigzag"}
FvLastMoves == {-30, 0, 30}
FvSpreads == {0, 5}
FvClose(n, shape, move, i) ==
    FvBase + (IF shape = "flat" THEN 0
              ELSE IF i % 2 = 0 THEN FvSwing ELSE -FvSwing)
           + (IF i = n THEN move ELSE 0)
FvFrame(n, shape, move, spread, gapped) ==
    [rows |->
        [i \in 1..n |->
            [timestamp |-> i,
             close |-> FvClose(n, shape, move, i),
             high  |-> FvClose(n, shape, move, i) + spread,
             low   |-> FvClose(n, shape, move, i) - spread,
             aux   |-> ~(gapped /\ i = n)]]]
FvFrames ==
    {FvFrame(n, shape, move, spread, gapped) :
        n \in FvLens, shape \in FvShapes, move \in FvLastMoves,
        spread \in FvSpreads, gapped \in BOOLEAN}

Abs(x) == IF x < 0 THEN -x ELSE x
Max2(a, b) == IF a >= b THEN a ELSE b
MaxOf(S) == CHOOSE x \in S : \A y \in S : y <= x
MinOf(S) == CHOOSE x \in S : \A y \in S : x <= y

\* close.ewm(span, adjust=False).mean(): y1 = x1,
\* y[t] = ((span - 1) y[t-1] + 2 x[t]) / (span + 1)
RECURSIVE Ewm(_, _, _)
Ewm(rows, span, acc) ==
    IF Len(acc) = Len(rows) THEN acc
    ELSE LET x == rows[Len(acc) + 1].close * FvScale
         IN  Ewm(rows, span,
                 Append(acc, IF acc = <<>> THEN x
                             ELSE ((span - 1) * acc[Len(acc)] + 2 * x)
                                     \div (span + 1)))

\* TR = max(H-L, |H-PC|, |L-PC|); the first row has no previous close and
\* max(axis=1) skips the NaN
TrueRange(rows, i) ==
    IF i = 1 THEN rows[i].high - rows[i].low
    ELSE Max2(rows[i].high - rows[i].low,
              Max2(Abs(rows[i].high - rows[i - 1].close),
                   Abs(rows[i].low - rows[i - 1].close)))

\* TR.rolling(14).mean()
AtrWindow == 14
Atr(rows, i) ==
    IF i < AtrWindow THEN NaN
    ELSE (SumSeq([k \in 1..AtrWindow |-> TrueRange(rows, i - AtrWindow + k)])
            * FvScale) \div AtrWindow

\* the rolling(20) window that ends at row i
Window(i) == (i - FairValueMinBars + 1)..i

\* zscore = (close - mean20) / std20 in tenths, truncated towards zero. With
\* d[j] = close[j] - close[i], S = sum d and Q = sum d*d over the window,
\* zscore^2 = 19 S^2 / (20 (20 Q - S^2)), and its sign is that of -S
ZTenths(rows, i) ==
    IF i < FairValueMinBars THEN NaN
    ELSE LET d == [k \in 1..FairValueMinBars |->
                      rows[i - FairValueMinBars + k].close - rows[i].close]
             S == SumSeq(d)
             Q == SumSeq([k \in 1..FairValueMinBars |-> d[k] * d[k]])
             V == FairValueMinBars * Q - S * S
             m == MaxOf({k \in 0..45 : 95 * S * S >= k * k * V})
         IN  IF V = 0 THEN NaN
             ELSE IF S > 0 THEN -m ELSE m

\* low.rolling(20).min() and high.rolling(20).max()
Support20(rows, i) ==
    IF i < FairValueMinBars THEN NaN
    ELSE MinOf({rows[j].low : j \in Window(i)})
Resistance20(rows, i) ==
    IF i < FairValueMinBars THEN NaN
    ELSE MaxOf({rows[j].high : j \in Window(i)})

\* the columns calculate_fair_value assigns, added to every row
WithIndicators(rows) ==
    LET ema20 == Ewm(rows, 20, <<>>)
        ema50 == Ewm(rows, 50, <<>>)
    IN  [i \in 1..Len(rows) |->
            [EMA20 |-> ema20[i],
             EMA50 |-> ema50[i],
             TR |-> TrueRange(rows, i),
             ATR |-> Atr(rows, i),
             zscore |-> ZTenths(rows, i),
             Support20 |-> Support20(rows, i),
             Resistance20 |-> Resistance20(rows, i)] @@ rows[i]]

\* df.dropna(): a row stays when none of its columns is missing
DropNa(rows) ==
    SelectSeq(rows, LAMBDA row :
        /\ row.aux
        /\ \A c \in DOMAIN row \ {"aux"} : row[c] # NaN)

\* variant of ZScoreVote: a strong z-score weighs the same as a moderate one
ZScoreVoteUnweighted(z) ==
    IF z <= -10
    THEN [method |-> "Z-Score", signal |-> "COMPRA",
          strength |-> IF z <= -15 THEN "fuerte" ELSE "moderada",
          buy |-> 1, sell |-> 0, neutral |-> 0]
    ELSE IF z >= 10
    THEN [method |-> "Z-Score", signal |-> "VENTA",
          strength |-> IF z >= 15 THEN "fuerte" ELSE "moderada",
          buy |-> 0, sell |-> 1, neutral |-> 0]
    ELSE [method |-> "Z-Score", signal |-> "NEUTRAL", strength |-> "neutral",
          buy |-> 0, sell |-> 0, neutral |-> 1]

\* 1. the Z-Score signal (z in tenths) and what it adds to the three counters
ZScoreVote(z) ==
    IF z <= -10
    THEN [method |-> "Z-Score", signal |-> "COMPRA",
          strength |-> IF z <= -15 THEN "fuerte" ELSE "moderada",
          buy |-> IF z <= -15 THEN 2 ELSE 1, sell |-> 0, neutral |-> 0]
    ELSE IF z >= 10
    THEN [method |-> "Z-Score", signal |-> "VENTA",
          strength |-> IF z >= 15 THEN "fuerte" ELSE "moderada",
          buy |-> 0, sell |-> IF z >= 15 THEN 2 ELSE 1, neutral |-> 0]
    ELSE [method |-> "Z-Score", signal |-> "NEUTRAL", strength |-> "neutral",
          buy |-> 0, sell |-> 0, neutral |-> 1]

\* 2. to 4. the ATR, EMA and Soporte/Resistencia signals: the price against
\* the buy and the sell level of the method
LevelVote(method, price, fair_buy, fair_sell, strength, weight) ==
    IF price <= fair_buy
    THEN [method |-> method, signal |-> "COMPRA", strength |-> strength,
          buy |-> weight, sell |-> 0, neutral |-> 0]
    ELSE IF price >= fair_sell
    THEN [method |-> method, signal |-> "VENTA", strength |-> strength,
          buy |-> 0, sell |-> weight, neutral |-> 0]
    ELSE [method |-> method, signal |-> "NEUTRAL", strength |-> "neutral",
          buy |-> 0, sell |-> 0, neutral |-> 1]

\* 5. the EMA cross signal
CrossVote(ema20, ema50) ==
    IF ema20 > ema50
    THEN [method |-> "Cruce EMA", signal |-> "ALCISTA",
          strength |-> "moderada", buy |-> 1, sell |-> 0, neutral |-> 0]
    ELSE IF ema20 < ema50
    THEN [method |-> "Cruce EMA", signal |-> "BAJISTA",
          strength |-> "moderada", buy |-> 0, sell |-> 1, neutral |-> 0]
    ELSE [method |-> "Cruce EMA", signal |-> "NEUTRAL",
          strength |-> "neutral", buy |-> 0, sell |-> 0, neutral |-> 1]

\* variant of Recommendation: the strong levels start beyond 3
RecommendationBeyond3(total_score) ==
    IF total_score > 3 THEN "COMPRA FUERTE"
    ELSE IF total_score >= 1 THEN "COMPRA"
    ELSE IF total_score < -3 THEN "VENTA FUERTE"
    ELSE IF total_score <= -1 THEN "VENTA"
    ELSE "MANTENER"

\* the consolidated recommendation
Recommendation(total_score) ==
    IF total_score >= 3 THEN "COMPRA FUERTE"
    ELSE IF total_score >= 1 THEN "COMPRA"
    ELSE IF total_score <= -3 THEN "VENTA FUERTE"
    ELSE IF total_score <= -1 THEN "VENTA"
    ELSE "MANTENER"

RecommendationColor(recommendation) ==
    IF recommendation \in {"COMPRA FUERTE", "COMPRA"} THEN "success"
    ELSE IF recommendation \in {"VENTA FUERTE", "VENTA"} THEN "error"
    ELSE "warning"

\* _generate_signals; an entry of the signals list is [method, signal,
\* strength] (its reason text is left out)
GenerateSignals(a) ==
    LET votes == <<ZScoreVote(a.zscore),
                   LevelVote("ATR", a.current_price, a.fair_buy_atr,
                             a.fair_sell_atr, "moderada", 1),
                   LevelVote("EMA", a.current_price, a.fair_buy_ema,
                             a.fair_sell_ema, "moderada", 1),
                   LevelVote("Soporte/Resistencia", a.current_price,
                             a.fair_buy_support, a.fair_sell_resistance,
                             "fuerte", 2),
                   CrossVote(a.ema20, a.ema50)>>
        buy_signals == SumSeq([k \in 1..Len(votes) |-> votes[k].buy])
        sell_signals == SumSeq([k \in 1..Len(votes) |-> votes[k].sell])
        neutral_signals == SumSeq([k \in 1..Len(votes) |-> votes[k].neutral])
        total_score == buy_signals - sell_signals
    IN  [signals |-> [k \in 1..Len(votes) |->
                         [method |-> votes[k].method,
                          signal |-> votes[k].signal,
                          strength |-> votes[k].strength]],
         buy_score |-> buy_signals,
         sell_score |-> sell_signals,
         neutral_score |-> neutral_signals,
         total_score |-> total_score,
         recommendation |-> Recommendation(total_score),
         recommendation_color |->
             RecommendationColor(Recommendation(total_score))]

\* the arguments calculate_fair_value passes to _generate_signals, from the
\* last row that dropna() left
SignalArgsOf(last) ==
    [current_price |-> last.close * FvScale,
     zscore |-> last.zscore,
     fair_buy_atr |-> last.EMA20 - (last.ATR \div 2),
     fair_sell_atr |-> last.EMA20 + (last.ATR \div 2),
     fair_buy_ema |-> (last.EMA20 * 995) \div 1000,
     fair_sell_ema |-> (last.EMA20 * 1005) \div 1000,
     fair_buy_support |-> (last.Support20 * FvScale * 101) \div 100,
     fair_sell_resistance |-> (last.Resistance20 * FvScale * 99) \div 100,
     ema20 |-> last.EMA20,
     ema50 |-> last.EMA50]

\* round(x, 2) of a value held in 1/FvScale of a hundredth
Round2(x) == (x + (FvScale \div 2)) \div FvScale

\* the dict calculate_fair_value returns, in hundredths of a price unit
FairValueReport(rows) ==
    LET last == rows[Len(rows)]
        a == SignalArgsOf(last)
    IN  [current_price |-> Round2(a.current_price),
         zscore |-> a.zscore,
         ema20 |-> Round2(last.EMA20),
         ema50 |-> Round2(last.EMA50),
         atr |-> Round2(last.ATR),
         support20 |-> last.Support20,
         resistance20 |-> last.Resistance20,
         fair_values |->
            [atr |-> [buy |-> Round2(a.fair_buy_atr),
                      sell |-> Round2(a.fair_sell_atr)],
             ema |-> [buy |-> Round2(a.fair_buy_ema),
                      sell |-> Round2(a.fair_sell_ema)],
             support_resistance |->
                     [buy |-> Round2(a.fair_buy_support),
                      sell |-> Round2(a.fair_sell_resistance)]],
         buy_range |->
            [min |-> Round2(MinOf({a.fair_buy_atr, a.fair_buy_ema,
                                   a.fair_buy_support})),
             max |-> Round2(MaxOf({a.fair_buy_atr, a.fair_buy_ema,
                                   a.fair_buy_support}))],
         sell_range |->
            [min |-> Round2(MinOf({a.fair_sell_atr, a.fair_sell_ema,
                                   a.fair_sell_resistance})),
             max |-> Round2(MaxOf({a.fair_sell_atr, a.fair_sell_ema,
                                   a.fair_sell_resistance}))],
         signals |-> GenerateSignals(a)]

\* the messages of the two FairValueServiceException
FvMinBarsMessage == "Se requieren al menos 20 barras para calcular fair value"
FvNoDataMessage == "No hay suficientes datos después de calcular indicadores"

\* variant of FvTooShort: only the empty frame is turned away
FvTooShortEmptyOnly(df) == df.rows = <<>>

\* if df.empty or len(df) < 20
FvTooShort(df) == df.rows = <<>> \/ Len(df.rows) < FairValueMinBars

\* variant of CallerFrame: the columns are assigned to the caller's frame
CallerFrameAliased(given, work) == [rows |-> work]

\* what the caller's frame is after the column assignments: they go to the
\* copy made by df = df.copy()
CallerFrame(given, work) == given

InitFairValue ==
    /\ fv_given \in FvFrames
    /\ fv_input = fv_given
    /\ fv_pc = "check"
    /\ fv_df = None
    /\ fv_out = None
    /\ fv_error = NoException
    /\ fv_calls = 0
    /\ fv_first = None
    /\ TrendIdle
    /\ SigIdle
    /\ ConcIdle
    /\ PrefIdle
    /\ OrdIdle
    /\ SwingIdle
    /\ WsIdle
    /\ TradeIdle

\* the guard on the number of bars, then df = df.copy()
FvCheck ==
    /\ fv_pc = "check"
    /\ IF FvTooShort(fv_input)
       THEN /\ fv_error' = FvMinBarsMessage
            /\ fv_pc' = "raised"
            /\ fv_calls' = fv_calls + 1
            /\ UNCHANGED fv_df
       ELSE /\ fv_df' = fv_input
            /\ fv_pc' = "indicators"
            /\ UNCHANGED <<fv_error, fv_calls>>
    /\ UNCHANGED <<fv_given, fv_input, fv_out, fv_first, trendVars, sigVars,
                   concVars, prefVars, ordVars, swingVars>>
    /\ UNCHANGED <<wsVars, tradeVars>>

\* the indicator columns, dropna(), and the check that rows are left
FvIndicators ==
    /\ fv_pc = "indicators"
    /\ fv_input' = CallerFrame(fv_input, WithIndicators(fv_df.rows))
    /\ fv_df' = [rows |-> DropNa(WithIndicators(fv_df.rows))]
    /\ IF fv_df'.rows = <<>>
       THEN /\ fv_error' = FvNoDataMessage
            /\ fv_pc' = "raised"
            /\ fv_calls' = fv_calls + 1
       ELSE /\ fv_pc' = "report"
            /\ UNCHANGED <<fv_error, fv_calls>>
    /\ UNCHANGED <<fv_given, fv_out, fv_first, trendVars, sigVars, concVars,
                   prefVars, ordVars, swingVars>>
    /\ UNCHANGED <<wsVars, tradeVars>>

\* the fair values of the last row, the signals, the ranges, the return
FvReport ==
    /\ fv_pc = "report"
    /\ fv_out' = FairValueReport(fv_df.rows)
    /\ fv_pc' = "returned"
    /\ fv_calls' = fv_calls + 1
    /\ UNCHANGED <<fv_given, fv_input, fv_df, fv_error, fv_first, trendVars,
                   sigVars, concVars, prefVars, ordVars, swingVars>>
    /\ UNCHANGED <<wsVars, tradeVars>>

\* the caller calls calculate_fair_value once more with the same frame
FvCallAgain ==
    /\ fv_pc \in {"raised", "returned"}
    /\ fv_calls = 1
    /\ fv_first' = [out |-> fv_out, error |-> fv_error]
    /\ fv_df' = None
    /\ fv_out' = None
    /\ fv_error' = NoException
    /\ fv_pc' = "check"
    /\ UNCHANGED <<fv_given, fv_input, fv_calls, trendVars, sigVars,
                   concVars, prefVars, ordVars, swingVars>>
    /\ UNCHANGED <<wsVars, tradeVars>>

NextFairValue ==
    \/ FvCheck
    \/ FvIndicators
    \/ FvReport
    \/ FvCallAgain

SpecFairValue == InitFairValue /\ [][NextFairValue]_vars

\* the arguments of a direct _generate_signals call: the price 100 against
\* levels below, at and above it, z-scores around the two thresholds
SignalLevels == {90, 100, 110}
SignalZScores == {-20, -15, -14, -10, -9, 0, 9, 10, 14, 15, 20}
SignalArgs ==
    {[current_price |-> 100, zscore |-> z,
      fair_buy_atr |-> l[1], fair_sell_atr |-> l[2],
      fair_buy_ema |-> l[3], fair_sell_ema |-> l[4],
      fair_buy_support |-> l[5], fair_sell_resistance |-> l[6],
      ema20 |-> 100, ema50 |-> e] :
        z \in SignalZScores, l \in [1..6 -> SignalLevels],
        e \in SignalLevels}

InitSignals ==
    /\ sig_args \in SignalArgs
    /\ sig_out = None
    /\ TrendIdle
    /\ FvIdle
    /\ ConcIdle
    /\ PrefIdle
    /\ OrdIdle
    /\ SwingIdle
    /\ WsIdle
    /\ TradeIdle

Signals ==
    /\ sig_out = None
    /\ sig_out' = GenerateSignals(sig_args)
    /\ UNCHANGED <<sig_args, trendVars, fvVars, concVars, prefVars, ordVars,
                   swingVars>>
    /\ UNCHANGED <<wsVars, tradeVars>>

NextSignals == Signals

SpecSignals == InitSignals /\ [][NextSignals]_vars

(* ----------------------- trend preferences service -------------------- *)
\* at most MaxPrefOps calls of the service are followed
MaxPrefOps == 4
Users == {"u1", "u2"}

\* the strings a caller may pass as profile and as model_type
PrefProfileInputs ==
    {NoneValue, "", "intradia", "intradía", " Intradia ", "largo", "long",
     "LARGO", "corto", "swing"}
PrefModelInputs ==
    {NoneValue, "", "rf", "random_forest", "random-forest", "RF", "xgboost",
     "lightgbm"}

\* the pairs a caller passes: every profile string, every model string, and
\* a pair in which both need their spelling normalized
PrefInputs ==
    {<<p, "xgboost">> : p \in PrefProfileInputs}
      \cup {<<"largo", m>> : m \in PrefModelInputs}
      \cup {<<" Intradia ", "RF">>}

DEFAULT_PROFILE == "corto"
DEFAULT_MODEL_TYPE == "xgboost"

\* str(x).strip().lower() on the strings above
StripLower(x) ==
    CASE x = " Intradia " -> "intradia"
      [] x = "LARGO" -> "largo"
      [] x = "RF" -> "rf"
      [] OTHER -> x

\* variant of NormalizeProfile: a name that is not known is kept
NormalizeProfileKept(p) ==
    IF Falsy(p) THEN DEFAULT_PROFILE
    ELSE IF StripLower(p) \in {"intradia", "intradía"} THEN "intradia"
    ELSE IF StripLower(p) \in {"largo", "long"} THEN "largo"
    ELSE StripLower(p)

\* _normalize_profile
NormalizeProfile(p) ==
    IF Falsy(p) THEN DEFAULT_PROFILE
    ELSE IF StripLower(p) \in {"intradia", "intradía"} THEN "intradia"
    ELSE IF StripLower(p) \in {"largo", "long"} THEN "largo"
    ELSE DEFAULT_PROFILE

\* _normalize_model_type
NormalizeModelType(m) ==
    IF Falsy(m) THEN DEFAULT_MODEL_TYPE
    ELSE IF StripLower(m) \in {"rf", "random_forest", "random-forest"}
    THEN "random_forest"
    ELSE DEFAULT_MODEL_TYPE

\* find_one({"user_id": user_id}): the document, or None
FindOne(db, u) == IF u \in DOMAIN db THEN db[u] ELSE None

\* update_one({"user_id": user_id}, {"$set": ...}, upsert=True); the
\* timestamps of the document are left out
UpsertOne(db, u, doc) == [v \in (DOMAIN db) \cup {u} |->
                             IF v = u THEN doc ELSE db[v]]

InitPrefs ==
    /\ pref_db = <<>>
    /\ pref_last = <<>>
    /\ pref_got = None
    /\ pref_ops = 0
    /\ TrendIdle
    /\ FvIdle
    /\ SigIdle
    /\ ConcIdle
    /\ OrdIdle
    /\ SwingIdle
    /\ WsIdle
    /\ TradeIdle

\* set_preferences: both values normalized, upserted, returned
SetPreferences(u, p, m) ==
    /\ pref_ops < MaxPrefOps
    /\ pref_ops' = pref_ops + 1
    /\ LET saved == [profile |-> NormalizeProfile(p),
                     model_type |-> NormalizeModelType(m)]
       IN  /\ pref_db' = UpsertOne(pref_db, u, saved)
           /\ pref_last' = UpsertOne(pref_last, u,
                              [profile |-> p, model_type |-> m,
                               saved |-> saved])
    /\ UNCHANGED <<pref_got, trendVars, fvVars, sigVars, concVars, ordVars,
                   swingVars>>
    /\ UNCHANGED <<wsVars, tradeVars>>

\* set_preferences when update_one raises: TrendPreferencesServiceException,
\* nothing is stored
SetPreferencesFails(u, p, m) ==
    /\ pref_ops < MaxPrefOps
    /\ pref_ops' = pref_ops + 1
    /\ UNCHANGED <<pref_db, pref_last, pref_got, trendVars, fvVars, sigVars,
                   concVars, ordVars, swingVars>>
    /\ UNCHANGED <<wsVars, tradeVars>>

\* get_preferences: the defaults without a document, else the document's
\* values, normalized once more
GetPreferences(u) ==
    /\ pref_ops < MaxPrefOps
    /\ pref_ops' = pref_ops + 1
    /\ LET doc == FindOne(pref_db, u)
       IN  pref_got' =
              [user_id |-> u,
               last |-> FindOne(pref_last, u),
               prefs |-> IF doc = None
                         THEN [profile |-> DEFAULT_PROFILE,
                               model_type |-> DEFAULT_MODEL_TYPE]
                         ELSE [profile |-> NormalizeProfile(doc.profile),
                               model_type |->
                                   NormalizeModelType(doc.model_type)]]
    /\ UNCHANGED <<pref_db, pref_last, trendVars, fvVars, sigVars, concVars,
                   ordVars, swingVars>>
    /\ UNCHANGED <<wsVars, tradeVars>>

\* get_preferences when find_one raises: TrendPreferencesServiceException
GetPreferencesFails(u) ==
    /\ pref_ops < MaxPrefOps
    /\ pref_ops' = pref_ops + 1
    /\ UNCHANGED <<pref_db, pref_last, pref_got, trendVars, fvVars, sigVars,
                   concVars, ordVars, swingVars>>
    /\ UNCHANGED <<wsVars, tradeVars>>

NextPrefs ==
    \E u \in Users :
        \/ \E a \in PrefInputs :
              \/ SetPreferences(u, a[1], a[2])
              \/ SetPreferencesFails(u, a[1], a[2])
        \/ GetPreferences(u)
        \/ GetPreferencesFails(u)

SpecPrefs == InitPrefs /\ [][NextPrefs]_vars

(* ------------------------ AlpacaService.submit_order ------------------- *)
\* the fields of the Order dataclass that a caller sets
OrderSides == {"BUY", "SELL"}
OrderTypes == {"MARKET", "LIMIT", "STOP", "STOP_LIMIT", "TRAILING_STOP"}
OrderSymbols == {"AAPL", "MSFT"}
OrderQtys == {1, 10}
OrderTifs == {"day", "gtc", "DAY", "weekly"}
OrderPrices == {100}
\* Python's None where a price is expected
NoPrice == -1

\* an Order: the attributes are those the dataclass declares
Orders ==
    [symbol : OrderSymbols, qty : OrderQtys, side : OrderSides,
     order_type : OrderTypes, time_in_force : OrderTifs,
     limit_price : OrderPrices \cup {NoPrice},
     stop_price : OrderPrices \cup {NoPrice},
     order_id : {NoneValue}]

\* order.<name> raises AttributeError unless the object has the attribute
HasAttr(order, name) == name \in DOMAIN order

\* getattr(TimeInForce, order.time_in_force.upper()): the members of the
\* broker's enum, or AttributeError
TimeInForceMembers == {"DAY", "GTC", "OPG", "CLS", "IOC", "FOK"}
Upper(x) ==
    CASE x = "day" -> "DAY"
      [] x = "gtc" -> "GTC"
      [] x = "weekly" -> "WEEKLY"
      [] OTHER -> x
TifSupported(order) == Upper(order.time_in_force) \in TimeInForceMembers

\* the attributes of the Order that building the request of its type reads
RequestReads(order) ==
    IF order.order_type \in {"MARKET", "LIMIT"}
    THEN {"symbol", "qty", "notional"}
    ELSE {"symbol", "qty"}

\* the exception raised while the request of the order's type is built, or
\* NoException
BuildError(order) ==
    IF ~TifSupported(order) THEN "Time in force no soportado"
    ELSE IF order.order_type = "MARKET"
    THEN IF \E name \in RequestReads(order) : ~HasAttr(order, name)
         THEN "'Order' object has no attribute 'notional'"
         ELSE NoException
    ELSE IF order.order_type = "LIMIT"
    THEN IF order.limit_price = NoPrice
         THEN "Precio limite requerido para orden limite"
         ELSE IF \E name \in RequestReads(order) : ~HasAttr(order, name)
         THEN "'Order' object has no attribute 'notional'"
         ELSE NoException
    ELSE IF order.order_type = "STOP"
    THEN IF order.stop_price = NoPrice
         THEN "Precio stop requerido para orden stop"
         ELSE NoException
    ELSE IF order.order_type = "STOP_LIMIT"
    THEN IF order.limit_price = NoPrice \/ order.stop_price = NoPrice
         THEN "Precios limite y stop requeridos para orden stop limit"
         ELSE NoException
    ELSE "Tipo de orden no soportado"

\* except Exception as e: raise AlpacaServiceException(f"Error inesperado:
\* {e}"); the message is kept as the pair of its two parts
RequestError(order) ==
    IF BuildError(order) = NoException THEN <<>>
    ELSE <<"Error inesperado", BuildError(order)>>

\* the request for the broker
OrderRequest(order) ==
    [kind |-> order.order_type,
     symbol |-> order.symbol,
     qty |-> order.qty,
     side |-> IF order.side = "BUY" THEN "buy" ELSE "sell",
     time_in_force |-> Upper(order.time_in_force)]

\* Order.from_alpaca_order on the order the broker created
FromAlpacaOrder(alpaca_order) ==
    [symbol |-> alpaca_order.symbol,
     qty |-> alpaca_order.qty,
     side |-> IF alpaca_order.side = "buy" THEN "BUY" ELSE "SELL",
     order_type |-> IF alpaca_order.type \in
                         {"MARKET", "LIMIT", "STOP", "STOP_LIMIT"}
                    THEN alpaca_order.type ELSE "MARKET",
     time_in_force |-> alpaca_order.time_in_force,
     order_id |-> alpaca_order.id]

InitOrder ==
    /\ ord_in \in Orders
    /\ ord_pc = "build"
    /\ ord_request = None
    /\ ord_sent = <<>>
    /\ ord_out = None
    /\ ord_error = <<>>
    /\ TrendIdle
    /\ FvIdle
    /\ SigIdle
    /\ ConcIdle
    /\ PrefIdle
    /\ SwingIdle
    /\ WsIdle
    /\ TradeIdle

\* side, time in force and the request of the order's type; any exception
\* ends the call as AlpacaServiceException
OrdBuild ==
    /\ ord_pc = "build"
    /\ IF RequestError(ord_in) # <<>>
       THEN /\ ord_error' = RequestError(ord_in)
            /\ ord_pc' = "raised"
            /\ UNCHANGED ord_request
       ELSE /\ ord_request' = OrderRequest(ord_in)
            /\ ord_pc' = "send"
            /\ UNCHANGED ord_error
    /\ UNCHANGED <<ord_in, ord_sent, ord_out, trendVars, fvVars, sigVars,
                   concVars, prefVars, swingVars>>
    /\ UNCHANGED <<wsVars, tradeVars>>

\* client.submit_order(order_data): the broker creates the order, and
\* submit_order returns it
OrdAccepted ==
    /\ ord_pc = "send"
    /\ ord_sent' = Append(ord_sent, ord_request)
    /\ ord_out' = FromAlpacaOrder(
                     [id |-> "order-1",
                      symbol |-> ord_request.symbol,
                      qty |-> ord_request.qty,
                      side |-> ord_request.side,
                      type |-> ord_request.kind,
                      time_in_force |-> ord_request.time_in_force])
    /\ ord_pc' = "returned"
    /\ UNCHANGED <<ord_in, ord_request, ord_error, trendVars, fvVars, sigVars,
                   concVars, prefVars, swingVars>>
    /\ UNCHANGED <<wsVars, tradeVars>>

\* client.submit_order(order_data): the broker answers with an APIError
OrdRejected ==
    /\ ord_pc = "send"
    /\ ord_sent' = Append(ord_sent, ord_request)
    /\ ord_error' = <<"Error al enviar orden", "APIError">>
    /\ ord_pc' = "raised"
    /\ UNCHANGED <<ord_in, ord_request, ord_out, trendVars, fvVars, sigVars,
                   concVars, prefVars, swingVars>>
    /\ UNCHANGED <<wsVars, tradeVars>>

NextOrder ==
    \/ OrdBuild
    \/ OrdAccepted
    \/ OrdRejected

SpecOrder == InitOrder /\ [][NextOrder]_vars

(* ------------------- concurrent analyze_symbol requests ---------------- *)
\* the requests that run at the same time
Requests == {1, 2}

\* what a request analyses: a price path, the rows without vwap, the model
ConcurrentPaths ==
    {<<>>,
     <<<<60, 1>>, <<60, 0>>>>,
     <<<<60, 1>>, <<60, -1>>>>}

\* variant of ObjectsOf: the service keeps what it builds in attributes of
\* the one instance every request uses
ObjectsOfShared(r) == 1

\* where the objects a request builds live: df_raw, df_ind, df_target, the
\* split, the model and the encoder are locals of the call, one set per request
ObjectsOf(r) == r

\* the locals of a request that has not started, and its objects
NewRequest(b, p, mt) ==
    [pc |-> "build_df", bars |-> b, profile |-> p, model_type |-> mt,
     params |-> None, pred |-> None, proba_map |-> None, fair_value |-> None,
     result |-> None, outcome |-> NoException, error |-> NoException]
NoObjects ==
    [df_raw |-> <<>>, df_ind |-> <<>>, df_target |-> <<>>, split |-> None,
     train_result |-> None]

InitConcurrent ==
    /\ creq \in [Requests ->
          {NewRequest(MakeBars(p, <<0, 0>>), "corto", mt) :
              p \in ConcurrentPaths, mt \in ModelTypes}]
    /\ cheap = [r \in Requests |-> NoObjects]
    /\ TrendIdle
    /\ FvIdle
    /\ SigIdle
    /\ PrefIdle
    /\ OrdIdle
    /\ SwingIdle
    /\ WsIdle
    /\ TradeIdle

\* request r ends with an exception
Raised(r, exc, msg) ==
    creq' = [creq EXCEPT ![r].pc = "done", ![r].outcome = exc,
                         ![r].error = msg]

\* the objects request r works on
Mine(r) == cheap[ObjectsOf(r)]

CBuildDf(r) ==
    /\ creq[r].pc = "build_df"
    /\ IF creq[r].bars = <<>>
       THEN /\ Raised(r, "TrendDetectionServiceException", "no bars")
            /\ UNCHANGED cheap
       ELSE /\ cheap' = [cheap EXCEPT ![ObjectsOf(r)].df_raw = creq[r].bars]
            /\ creq' = [creq EXCEPT ![r].pc = "add_indicators"]
    /\ UNCHANGED <<trendVars, fvVars, sigVars, prefVars, ordVars, swingVars>>
    /\ UNCHANGED <<wsVars, tradeVars>>

CIndicators(r) ==
    /\ creq[r].pc = "add_indicators"
    /\ LET df == AddIndicators(Mine(r).df_raw)
       IN  /\ cheap' = [cheap EXCEPT ![ObjectsOf(r)].df_ind = df]
           /\ IF df = <<>>
              THEN Raised(r, "TrendDetectionServiceException", "no indicators")
              ELSE creq' = [creq EXCEPT ![r].pc = "create_target"]
    /\ UNCHANGED <<trendVars, fvVars, sigVars, prefVars, ordVars, swingVars>>
    /\ UNCHANGED <<wsVars, tradeVars>>

CTarget(r) ==
    /\ creq[r].pc = "create_target"
    /\ LET pr == ProfileParams(creq[r].profile)
           df == CreateTarget(Mine(r).df_ind, pr.future_days,
                              pr.up_threshold, pr.down_threshold)
       IN  /\ cheap' = [cheap EXCEPT ![ObjectsOf(r)].df_target = df]
           /\ IF df = <<>>
              THEN Raised(r, "TrendDetectionServiceException",
                          "no trend series")
              ELSE creq' = [creq EXCEPT ![r].pc = "train", ![r].params = pr]
    /\ UNCHANGED <<trendVars, fvVars, sigVars, prefVars, ordVars, swingVars>>
    /\ UNCHANGED <<wsVars, tradeVars>>

CTrain(r) ==
    /\ creq[r].pc = "train"
    /\ LET df == Mine(r).df_target
           sp == TrainTestSplit(df)
       IN  IF TooFewSamples(df)
           THEN /\ Raised(r, "TrendDetectionServiceException",
                          "insufficient samples")
                /\ UNCHANGED cheap
           ELSE IF Len(TrainClasses(df, sp)) < 2
           THEN /\ Raised(r, "TrendDetectionServiceException",
                          "insufficient variation")
                /\ cheap' = [cheap EXCEPT ![ObjectsOf(r)].split = sp]
           ELSE /\ cheap' = [cheap EXCEPT
                               ![ObjectsOf(r)].split = sp,
                               ![ObjectsOf(r)].train_result =
                                   FitModel(creq[r].model_type, sp, Len(df))]
                /\ creq' = [creq EXCEPT ![r].pc = "predict"]
    /\ UNCHANGED <<trendVars, fvVars, sigVars, prefVars, ordVars, swingVars>>
    /\ UNCHANGED <<wsVars, tradeVars>>

CPredict(r) ==
    /\ creq[r].pc = "predict"
    /\ \E pred_encoded \in Predictions(Mine(r).train_result.model) :
          creq' = [creq EXCEPT
                     ![r].pc = "proba",
                     ![r].pred =
                         [pred_encoded |-> pred_encoded,
                          pred |-> Decode(Mine(r).train_result.label_encoder,
                                          pred_encoded)]]
    /\ UNCHANGED <<cheap, trendVars, fvVars, sigVars, prefVars, ordVars,
                   swingVars>>
    /\ UNCHANGED <<wsVars, tradeVars>>

CProba(r) ==
    /\ creq[r].pc = "proba"
    /\ LET tr == Mine(r).train_result
       IN  \E proba \in ProbaVectors(Len(tr.model.classes)) :
              IF tr.label_encoder # NoEncoder
              THEN creq' = [creq EXCEPT
                              ![r].pc = "fair_value",
                              ![r].proba_map =
                                  XgbProbaMap(tr.label_encoder, proba)]
              ELSE IF RfProbaRaises(proba, Mine(r).df_target)
              THEN Raised(r, "IndexError", "index out of bounds")
              ELSE creq' = [creq EXCEPT
                              ![r].pc = "fair_value",
                              ![r].proba_map =
                                  RfProbaMap(proba, Mine(r).df_target)]
    /\ UNCHANGED <<cheap, trendVars, fvVars, sigVars, prefVars, ordVars,
                   swingVars>>
    /\ UNCHANGED <<wsVars, tradeVars>>

\* the dict analyze_symbol returns
ResultOf(pr, p, pm, tr, fv) ==
    [trend_code |-> p.pred,
     trend_label |-> TrendLabel(p.pred),
     probabilities |-> pm,
     n_samples |-> tr.n_samples,
     classification_report |-> tr.report,
     model_type |-> tr.model_type,
     profile |-> pr.profile_key,
     future_days |-> pr.future_days,
     up_threshold |-> pr.up_threshold,
     down_threshold |-> pr.down_threshold,
     fair_value |-> fv]

CFairValue(r) ==
    /\ creq[r].pc = "fair_value"
    /\ LET fv == IF FairValueRaises(Mine(r).df_raw) THEN None
                 ELSE CalculateFairValue(Mine(r).df_raw)
       IN  creq' = [creq EXCEPT
                      ![r].pc = "done",
                      ![r].fair_value = fv,
                      ![r].outcome = "result",
                      ![r].result =
                          ResultOf(creq[r].params, creq[r].pred,
                                   creq[r].proba_map, Mine(r).train_result,
                                   fv)]
    /\ UNCHANGED <<cheap, trendVars, fvVars, sigVars, prefVars, ordVars,
                   swingVars>>
    /\ UNCHANGED <<wsVars, tradeVars>>

NextConcurrent ==
    \E r \in Requests :
        \/ CBuildDf(r)
        \/ CIndicators(r)
        \/ CTarget(r)
        \/ CTrain(r)
        \/ CPredict(r)
        \/ CProba(r)
        \/ CFairValue(r)

SpecConcurrent == InitConcurrent /\ [][NextConcurrent]_vars

\* the ways a request for bars b ends when nothing else runs:
\* [outcome, error, result]
Ends(exc, msg) == {[outcome |-> exc, error |-> msg, result |-> None]}
AloneScored(b, pr, df, tr) ==
    LET fv == IF FairValueRaises(b) THEN None ELSE CalculateFairValue(b)
    IN  UNION {
          {IF tr.label_encoder = NoEncoder /\ RfProbaRaises(proba, df)
           THEN [outcome |-> "IndexError", error |-> "index out of bounds",
                 result |-> None]
           ELSE [outcome |-> "result", error |-> NoException,
                 result |->
                    ResultOf(pr,
                             [pred_encoded |-> e,
                              pred |-> Decode(tr.label_encoder, e)],
                             IF tr.label_encoder # NoEncoder
                             THEN XgbProbaMap(tr.label_encoder, proba)
                             ELSE RfProbaMap(proba, df),
                             tr, fv)] :
              proba \in ProbaVectors(Len(tr.model.classes))} :
          e \in Predictions(tr.model)}
AloneOutcomes(b, p, mt) ==
    IF b = <<>> THEN Ends("TrendDetectionServiceException", "no bars")
    ELSE IF AddIndicators(b) = <<>>
    THEN Ends("TrendDetectionServiceException", "no indicators")
    ELSE LET pr == ProfileParams(p)
             df == CreateTarget(AddIndicators(b), pr.future_days,
                                pr.up_threshold, pr.down_threshold)
             sp == TrainTestSplit(df)
         IN  IF df = <<>>
             THEN Ends("TrendDetectionServiceException", "no trend series")
             ELSE IF TooFewSamples(df)
             THEN Ends("TrendDetectionServiceException",
                       "insufficient samples")
             ELSE IF Len(TrainClasses(df, sp)) < 2
             THEN Ends("TrendDetectionServiceException",
                       "insufficient variation")
             ELSE AloneScored(b, pr, df, FitModel(mt, sp, Len(df)))

(* --------------------- automatic swing trading (websocket) ------------- *)
\* sockets/ws_events.py registers one price callback per websocket session
\* (on_price_update); services/swing_bot_service.py keeps one bar stream and
\* one thread per user, and the thread calls the callbacks of the user's
\* sessions one after the other.  Each callback runs
\* _maybe_auto_swing_trade, which reads the clock and auto_swing_state,
\* then calls the broker three times (positions, bars of the signal, the
\* bracket order) and writes auto_swing_state at the end, without a lock.
\* A stream that is stopped is forgotten at once; its thread is not joined.
\* days the clock can reach after day 0
MaxDays == 1
\* bar streams the service can create
MaxStreams == 3
\* subscribe_symbol / unsubscribe_symbol events
MaxSubOps == 4
\* bracket orders the broker accepts
MaxSwingOrders == 2

\* the websocket sessions and the user each has authenticated as
\* (handle_authenticate: ws_clients[request.sid] = user)
Sids == {"s1", "s2"}
ws_clients == [sid \in Sids |-> "u1"]
SwingUsers == {ws_clients[sid] : sid \in Sids}
SwingSymbols == {"AAPL", "MSFT"}
SwingKeys == SwingUsers \X SwingSymbols
StreamIds == 1..MaxStreams

\* auto_swing_state.get(key) of a key never written
NoDay == -1
\* _user_streams.get(user_key) of a user without a stream
NoStream == 0
\* _user_symbols.get(sid) of a sid without a callback
NoSymbol == ""

\* a stream that has not been created
UnusedStream ==
    [user |-> "", status |-> "unused", bars |-> {}, pc |-> "idle",
     targets |-> <<>>, symbol |-> NoSymbol, today |-> NoDay]

\* the elements of a sequence
Elems(seq) == {seq[i] : i \in 1..Len(seq)}
\* a dict without key k, in insertion order
Without(seq, k) == SelectSeq(seq, LAMBDA x : x # k)

\* key = f"{user.id}:{sym}", kept as a pair
SwingKey(user, sym) == <<user, sym>>

InitSwing ==
    /\ SWING_AUTOTRADE_ENABLED \in BOOLEAN
    /\ utc_day = 0
    /\ auto_swing_state = [k \in SwingKeys |-> NoDay]
    /\ user_callbacks = <<>>
    /\ user_symbols = [sid \in Sids |-> NoSymbol]
    /\ user_streams = [u \in SwingUsers |-> NoStream]
    /\ user_stream_symbols = [u \in SwingUsers |-> {}]
    /\ stream = [id \in StreamIds |-> UnusedStream]
    /\ swing_orders = <<>>
    /\ positions = {}
    /\ sub_ops = 0
    /\ TrendIdle
    /\ FvIdle
    /\ SigIdle
    /\ ConcIdle
    /\ PrefIdle
    /\ OrdIdle
    /\ WsIdle
    /\ TradeIdle

\* subscribe_symbol_for_user(symbol, on_price_update, sid, user), called by
\* handle_subscribe_symbol: the callback of the sid is registered, and the
\* user's stream is created with its thread, or reused
SubscribeSymbolForUser(sid, sym) ==
    LET user_key == ws_clients[sid]
        id == user_streams[user_key]
        new == CHOOSE i \in StreamIds :
                  /\ stream[i].status = "unused"
                  /\ \A j \in StreamIds : stream[j].status = "unused" => i <= j
    IN  /\ id = NoStream => \E i \in StreamIds : stream[i].status = "unused"
        /\ user_callbacks' = IF sid \in Elems(user_callbacks)
                             THEN user_callbacks
                             ELSE Append(user_callbacks, sid)
        /\ user_symbols' = [user_symbols EXCEPT ![sid] = sym]
        /\ IF id = NoStream
           THEN /\ stream' = [stream EXCEPT ![new] =
                                 [UnusedStream EXCEPT !.user = user_key,
                                                      !.status = "running",
                                                      !.bars = {sym}]]
                /\ user_streams' = [user_streams EXCEPT ![user_key] = new]
                /\ user_stream_symbols' =
                      [user_stream_symbols EXCEPT ![user_key] = {sym}]
           ELSE /\ stream' =
                      IF sym \in user_stream_symbols[user_key]
                      THEN stream
                      ELSE [stream EXCEPT ![id].bars = @ \cup {sym}]
                /\ user_stream_symbols' =
                      [user_stream_symbols EXCEPT ![user_key] = @ \cup {sym}]
                /\ UNCHANGED user_streams

\* variant of HasAnySubscriber: the stream is kept for a later subscriber
HasAnySubscriberAlways(callbacks, user_key) == TRUE

\* has_any_subscriber: a session of the user still has a callback
HasAnySubscriber(callbacks, user_key) ==
    \E s \in Elems(callbacks) : ws_clients[s] = user_key

\* stream.stop() returns once the stream's thread has run the stop request,
\* that is after the handler it is running
StopReturns(id) == stream[id].pc = "idle"

\* unsubscribe_symbol_for_user(symbol, sid), called by
\* handle_unsubscribe_symbol and handle_disconnect: nothing for a sid
\* without a callback; else the sid's callback is removed, the symbol
\* leaves the stream when no session of the user has it, and the stream is
\* stopped and forgotten when the user has no session left (the thread of
\* the stream ends later: StreamExit)
UnsubscribeSymbolForUser(sid, sym) ==
    LET user_key == ws_clients[sid]
        id == user_streams[user_key]
        callbacks == Without(user_callbacks, sid)
        symbols == [user_symbols EXCEPT ![sid] = NoSymbol]
        still_has_symbol ==
            \E s \in Elems(callbacks) :
                ws_clients[s] = user_key /\ symbols[s] = sym
        drop == sym \in user_stream_symbols[user_key] /\ ~still_has_symbol
        has_any_subscriber == HasAnySubscriber(callbacks, user_key)
    IN  IF sid \notin Elems(user_callbacks)
        THEN UNCHANGED <<user_callbacks, user_symbols, stream, user_streams,
                         user_stream_symbols>>
        ELSE /\ user_callbacks' = callbacks
             /\ user_symbols' = symbols
             /\ IF id = NoStream
                THEN UNCHANGED <<stream, user_streams, user_stream_symbols>>
                ELSE /\ ~has_any_subscriber => StopReturns(id)
                     /\ stream' =
                           [stream EXCEPT
                              ![id].bars = IF drop THEN @ \ {sym} ELSE @,
                              ![id].status = IF has_any_subscriber THEN @
                                             ELSE "stopping"]
                     /\ user_streams' =
                           IF has_any_subscriber THEN user_streams
                           ELSE [user_streams EXCEPT ![user_key] = NoStream]
                     /\ user_stream_symbols' =
                           [user_stream_symbols EXCEPT ![user_key] =
                              IF ~has_any_subscriber THEN {}
                              ELSE IF drop THEN @ \ {sym} ELSE @]

\* a session of the user subscribes to a symbol
SwingSubscribe(sid, sym) ==
    /\ sub_ops < MaxSubOps
    /\ sub_ops' = sub_ops + 1
    /\ SubscribeSymbolForUser(sid, sym)
    /\ UNCHANGED <<SWING_AUTOTRADE_ENABLED, utc_day, auto_swing_state,
                   swing_orders, positions, trendVars, fvVars, sigVars,
                   concVars, prefVars, ordVars>>
    /\ UNCHANGED <<wsVars, tradeVars>>

\* a session with a callback unsubscribes
SwingUnsubscribe(sid, sym) ==
    /\ sub_ops < MaxSubOps
    /\ sid \in Elems(user_callbacks)
    /\ sub_ops' = sub_ops + 1
    /\ UnsubscribeSymbolForUser(sid, sym)
    /\ UNCHANGED <<SWING_AUTOTRADE_ENABLED, utc_day, auto_swing_state,
                   swing_orders, positions, trendVars, fvVars, sigVars,
                   concVars, prefVars, ordVars>>
    /\ UNCHANGED <<wsVars, tradeVars>>

\* run_stream_for_user: s.run() has returned or raised; the finally block
\* forgets whatever stream is registered under the key and removes every
\* subscriber of the user
StreamExit(id) ==
    LET key == stream[id].user
    IN  /\ stream[id].status \in {"running", "stopping"}
        /\ stream[id].pc = "idle"
        /\ stream' = [stream EXCEPT ![id].status = "exited",
                                    ![id].bars = {}]
        /\ user_streams' = [user_streams EXCEPT ![key] = NoStream]
        /\ user_stream_symbols' = [user_stream_symbols EXCEPT ![key] = {}]
        /\ user_callbacks' =
              SelectSeq(user_callbacks, LAMBDA s : ws_clients[s] # key)
        /\ user_symbols' =
              [s \in Sids |-> IF ws_clients[s] = key THEN NoSymbol
                              ELSE user_symbols[s]]
        /\ UNCHANGED <<SWING_AUTOTRADE_ENABLED, utc_day, auto_swing_state,
                       swing_orders, positions, sub_ops, trendVars, fvVars,
                       sigVars, concVars, prefVars, ordVars>>
        /\ UNCHANGED <<wsVars, tradeVars>>

\* handler(bar) of a stream: the callbacks of the user's sessions that are
\* registered for the bar's symbol, collected under the lock
Targets(id, sym_bar) ==
    SelectSeq(user_callbacks,
              LAMBDA s : ws_clients[s] = stream[id].user
                         /\ user_symbols[s] = sym_bar)

\* a bar of a subscribed symbol arrives on a stream; its thread starts to
\* call the callbacks one after the other
Bar(id, sym_bar) ==
    /\ stream[id].status = "running"
    /\ stream[id].pc = "idle"
    /\ sym_bar \in stream[id].bars
    /\ Targets(id, sym_bar) # <<>>
    /\ stream' = [stream EXCEPT ![id].pc = "callback",
                                ![id].targets = Targets(id, sym_bar),
                                ![id].symbol = sym_bar]
    /\ UNCHANGED <<SWING_AUTOTRADE_ENABLED, utc_day, auto_swing_state,
                   user_callbacks, user_symbols, user_streams,
                   user_stream_symbols, swing_orders, positions, sub_ops,
                   trendVars, fvVars, sigVars, concVars, prefVars, ordVars>>
    /\ UNCHANGED <<wsVars, tradeVars>>

\* the callback under way returns: the thread goes on with the next one
Return(id) ==
    [stream EXCEPT ![id].targets = Tail(@),
                   ![id].pc = IF Tail(stream[id].targets) = <<>>
                              THEN "idle" ELSE "callback",
                   ![id].today = NoDay]

\* the user of the callback under way (ws_clients.get(sid); the sessions
\* stay authenticated) and its key
CbUser(id) == ws_clients[Head(stream[id].targets)]
CbKey(id) == SwingKey(CbUser(id), stream[id].symbol)

\* on_price_update up to the first call of _maybe_auto_swing_trade to the
\* broker: the flag, the key, today and the day recorded for the key
CbStart(id) ==
    /\ stream[id].pc = "callback"
    /\ stream' =
          IF ~SWING_AUTOTRADE_ENABLED \/ auto_swing_state[CbKey(id)] = utc_day
          THEN Return(id)
          ELSE [stream EXCEPT ![id].pc = "positions", ![id].today = utc_day]
    /\ UNCHANGED <<SWING_AUTOTRADE_ENABLED, utc_day, auto_swing_state,
                   user_callbacks, user_symbols, user_streams,
                   user_stream_symbols, swing_orders, positions, sub_ops,
                   trendVars, fvVars, sigVars, concVars, prefVars, ordVars>>
    /\ UNCHANGED <<wsVars, tradeVars>>

\* trading_service.get_positions(user): it raises, or the symbol has an
\* open position, or the callback goes on to the signal
CbPositions(id, raises) ==
    /\ stream[id].pc = "positions"
    /\ stream' =
          IF raises \/ CbKey(id) \in positions
          THEN Return(id)
          ELSE [stream EXCEPT ![id].pc = "signal"]
    /\ UNCHANGED <<SWING_AUTOTRADE_ENABLED, utc_day, auto_swing_state,
                   user_callbacks, user_symbols, user_streams,
                   user_stream_symbols, swing_orders, positions, sub_ops,
                   trendVars, fvVars, sigVars, concVars, prefVars, ordVars>>
    /\ UNCHANGED <<wsVars, tradeVars>>

\* swing_strategy_service.generate_signal(sym, user): a signal with
\* qty > 0, or has_signal = False
CbSignal(id, has_signal) ==
    /\ stream[id].pc = "signal"
    /\ stream' =
          IF ~has_signal
          THEN Return(id)
          ELSE [stream EXCEPT ![id].pc = "execute"]
    /\ UNCHANGED <<SWING_AUTOTRADE_ENABLED, utc_day, auto_swing_state,
                   user_callbacks, user_symbols, user_streams,
                   user_stream_symbols, swing_orders, positions, sub_ops,
                   trendVars, fvVars, sigVars, concVars, prefVars, ordVars>>
    /\ UNCHANGED <<wsVars, tradeVars>>

\* swing_strategy_service.execute_signal(signal, user): the broker takes
\* the bracket order and the key is given the day read at the start, or
\* the call raises SwingStrategyServiceException and nothing is recorded
CbExecute(id, accepted) ==
    /\ stream[id].pc = "execute"
    /\ accepted => Len(swing_orders) < MaxSwingOrders
    /\ stream' = Return(id)
    /\ IF accepted
       THEN /\ swing_orders' =
                  Append(swing_orders,
                         [user |-> CbUser(id), symbol |-> stream[id].symbol,
                          day |-> utc_day])
            /\ auto_swing_state' =
                  [auto_swing_state EXCEPT ![CbKey(id)] = stream[id].today]
       ELSE UNCHANGED <<swing_orders, auto_swing_state>>
    /\ UNCHANGED <<SWING_AUTOTRADE_ENABLED, utc_day, user_callbacks,
                   user_symbols, user_streams, user_stream_symbols,
                   positions, sub_ops, trendVars, fvVars, sigVars, concVars,
                   prefVars, ordVars>>
    /\ UNCHANGED <<wsVars, tradeVars>>

\* the broker fills a bracket order: the position of the symbol opens
Fill(k) ==
    /\ k \notin positions
    /\ \E i \in 1..Len(swing_orders) :
          <<swing_orders[i].user, swing_orders[i].symbol>> = k
    /\ positions' = positions \cup {k}
    /\ UNCHANGED <<SWING_AUTOTRADE_ENABLED, utc_day, auto_swing_state,
                   user_callbacks, user_symbols, user_streams,
                   user_stream_symbols, stream, swing_orders, sub_ops,
                   trendVars, fvVars, sigVars, concVars, prefVars, ordVars>>
    /\ UNCHANGED <<wsVars, tradeVars>>

\* the take-profit or the stop-loss leg closes the position
ClosePosition(k) ==
    /\ k \in positions
    /\ positions' = positions \ {k}
    /\ UNCHANGED <<SWING_AUTOTRADE_ENABLED, utc_day, auto_swing_state,
                   user_callbacks, user_symbols, user_streams,
                   user_stream_symbols, stream, swing_orders, sub_ops,
                   trendVars, fvVars, sigVars, concVars, prefVars, ordVars>>
    /\ UNCHANGED <<wsVars, tradeVars>>

\* midnight UTC
Midnight ==
    /\ utc_day < MaxDays
    /\ utc_day' = utc_day + 1
    /\ UNCHANGED <<SWING_AUTOTRADE_ENABLED, auto_swing_state, user_callbacks,
                   user_symbols, user_streams, user_stream_symbols, stream,
                   swing_orders, positions, sub_ops, trendVars, fvVars,
                   sigVars, concVars, prefVars, ordVars>>
    /\ UNCHANGED <<wsVars, tradeVars>>

SwingSession ==
    \E sid \in Sids, sym \in SwingSymbols :
        \/ SwingSubscribe(sid, sym)
        \/ SwingUnsubscribe(sid, sym)

SwingThread ==
    \E id \in StreamIds :
        \/ \E sym \in SwingSymbols : Bar(id, sym)
        \/ CbStart(id)
        \/ \E raises \in BOOLEAN : CbPositions(id, raises)
        \/ \E has_signal \in BOOLEAN : CbSignal(id, has_signal)
        \/ \E accepted \in BOOLEAN : CbExecute(id, accepted)
        \/ StreamExit(id)

SwingBroker ==
    \E k \in SwingKeys :
        \/ Fill(k)
        \/ ClosePosition(k)

NextSwing ==
    \/ SwingSession
    \/ SwingThread
    \/ SwingBroker
    \/ Midnight

SpecSwing == InitSwing /\ [][NextSwing]_vars

(* ------------------------ websocket session handlers ------------------- *)
\* websocket events handled in a run
MaxSessOps == 6

\* data['symbol'] of a subscribe_symbol / unsubscribe_symbol event
SymbolFields == SwingSymbols \cup {""}

\* what the session handlers leave alone
sessFrame == <<SWING_AUTOTRADE_ENABLED, utc_day, auto_swing_state,
               swing_orders, positions, sub_ops, lock, unsub, trendVars,
               fvVars, sigVars, concVars, prefVars, ordVars, tradeVars>>
botVars == <<user_callbacks, user_symbols, stream, user_streams,
             user_stream_symbols>>

InitSessions ==
    /\ SWING_AUTOTRADE_ENABLED = FALSE
    /\ utc_day = 0
    /\ auto_swing_state = [k \in SwingKeys |-> NoDay]
    /\ user_callbacks = <<>>
    /\ user_symbols = [sid \in Sids |-> NoSymbol]
    /\ user_streams = [u \in SwingUsers |-> NoStream]
    /\ user_stream_symbols = [u \in SwingUsers |-> {}]
    /\ stream = [id \in StreamIds |-> UnusedStream]
    /\ swing_orders = <<>>
    /\ positions = {}
    /\ sub_ops = 0
    /\ authenticated = {}
    /\ client_subscriptions = [sid \in Sids |-> NoSymbol]
    /\ disconnected = {}
    /\ sess_ops = 0
    /\ lock = ""
    /\ unsub = <<>>
    /\ TrendIdle
    /\ FvIdle
    /\ SigIdle
    /\ ConcIdle
    /\ PrefIdle
    /\ OrdIdle
    /\ TradeIdle

\* variant of DisconnectUnsubscribes: the callback is removed whether or
\* not the session has an entry in client_subscriptions
DisconnectUnsubscribesAlways(sid) == TRUE

\* handle_disconnect: if sid in client_subscriptions
DisconnectUnsubscribes(sid) == client_subscriptions[sid] # NoSymbol

\* handle_disconnect, also run when a handler calls disconnect(): the
\* session's recorded symbol is unsubscribed, and its entries in
\* client_subscriptions and ws_clients are removed
Disconnect(sid) ==
    /\ IF DisconnectUnsubscribes(sid)
       THEN UnsubscribeSymbolForUser(sid, client_subscriptions[sid])
       ELSE UNCHANGED botVars
    /\ client_subscriptions' = [client_subscriptions EXCEPT ![sid] = NoSymbol]
    /\ authenticated' = authenticated \ {sid}
    /\ disconnected' = disconnected \cup {sid}

\* a websocket event of a connected session is handled
Handled(sid) ==
    /\ sid \notin disconnected
    /\ sess_ops < MaxSessOps
    /\ sess_ops' = sess_ops + 1

\* handle_authenticate: a valid token records the user of the session; a
\* missing or invalid one ends the session
HandleAuthenticate(sid, valid) ==
    /\ Handled(sid)
    /\ IF valid
       THEN /\ authenticated' = authenticated \cup {sid}
            /\ UNCHANGED <<client_subscriptions, disconnected, botVars>>
       ELSE Disconnect(sid)
    /\ UNCHANGED sessFrame

\* handle_subscribe_symbol: a session without user is disconnected; an
\* empty symbol is refused; else the symbol is recorded (the global
\* unsubscribe_symbol of the old symbol finds no subscription and changes
\* nothing) and, unless the first quote fails, the callback is registered
HandleSubscribeSymbol(sid, field, quote_ok) ==
    /\ Handled(sid)
    /\ IF sid \notin authenticated
       THEN Disconnect(sid)
       ELSE IF field = ""
       THEN UNCHANGED <<authenticated, client_subscriptions, disconnected,
                        botVars>>
       ELSE /\ client_subscriptions' =
                  [client_subscriptions EXCEPT ![sid] = field]
            /\ IF quote_ok
               THEN SubscribeSymbolForUser(sid, field)
               ELSE UNCHANGED botVars
            /\ UNCHANGED <<authenticated, disconnected>>
    /\ UNCHANGED sessFrame

\* handle_unsubscribe_symbol: the session's entry in client_subscriptions
\* is deleted, and unsubscribe_symbol_for_user is called with the symbol of
\* the event when it is not empty
HandleUnsubscribeSymbol(sid, field) ==
    /\ Handled(sid)
    /\ client_subscriptions' = [client_subscriptions EXCEPT ![sid] = NoSymbol]
    /\ IF field # ""
       THEN UnsubscribeSymbolForUser(sid, field)
       ELSE UNCHANGED botVars
    /\ UNCHANGED <<authenticated, disconnected>>
    /\ UNCHANGED sessFrame

\* the client goes away
HandleDisconnect(sid) ==
    /\ Handled(sid)
    /\ Disconnect(sid)
    /\ UNCHANGED sessFrame

NextSessions ==
    \/ \E sid \in Sids :
          \/ \E valid \in BOOLEAN : HandleAuthenticate(sid, valid)
          \/ \E field \in SymbolFields, quote_ok \in BOOLEAN :
                HandleSubscribeSymbol(sid, field, quote_ok)
          \/ \E field \in SymbolFields : HandleUnsubscribeSymbol(sid, field)
          \/ HandleDisconnect(sid)
    \/ \E id \in StreamIds : StreamExit(id)

SpecSessions == InitSessions /\ [][NextSessions]_vars

(* ------------------------------ properties ----------------------------- *)
TDSE == "TrendDetectionServiceException"
Trends == {-1, 0, 1}
Labels(df) == {df[k].trend : k \in 1..Len(df)}
\* the trends of the training partition (y_train is shifted by one)
TrainTrends == {y - 1 : y \in Range(split.y_train)}
TestTrends == {y - 1 : y \in Range(split.y_test)}

\* C1: whenever a probability map has been built (so in every returned
\* result, for either backend), its keys are exactly "-1", "0", "1", every
\* value is in [0,1], the values sum to at most 1, and a class that is not in
\* the training partition has probability 0
C1_ProbabilityMap ==
    proba_map # None =>
        /\ DOMAIN proba_map = ClassKeys
        /\ \A k \in ClassKeys : proba_map[k] \in 0..ProbScale
        /\ proba_map["-1"] + proba_map["0"] + proba_map["1"] <= ProbScale
        /\ \A t \in Trends \ TrainTrends : proba_map[Key(t)] = 0
        /\ (result # None => result.probabilities = proba_map)

\* a result of the random forest fitted on two classes, the seen classes
\* sharing the probability
C1_Witness ==
    /\ result # None
    /\ result.model_type = "random_forest"
    /\ TrainTrends = {0, 1}
    /\ result.probabilities["-1"] = 0
    /\ result.probabilities["0"] > 0
    /\ result.probabilities["1"] > 0

\* C2: with at least 50 labeled rows and at least two classes in the
\* training partition, analyze_symbol succeeds with a trend_code in {-1,0,1},
\* for "rf" and for "xgboost", whatever the classes of the whole labeled set
C2_BackendsInterchangeable ==
    (pc = "done" /\ split # None /\ Cardinality(TrainTrends) >= 2) =>
        /\ result # None
        /\ result.trend_code \in Trends

\* C3: every kept row has future_close = close[t+F] and a trend in {-1,0,1},
\* with trend = 1 exactly when pct_change > up_threshold, trend = -1 exactly
\* when pct_change < down_threshold, and trend = 0 exactly when neither holds
C3_TrendPartition ==
    \A k \in 1..Len(df_target) :
        LET r     == df_target[k]
            above == PctAbove(r.close, r.future_close, params.up_threshold)
            below == PctBelow(r.close, r.future_close, params.down_threshold)
        IN  /\ r.close = df_ind[k].close
            /\ r.future_close = df_ind[k + params.future_days].close
            /\ r.trend \in Trends
            /\ (r.trend = 1) <=> above
            /\ (r.trend = -1) <=> below
            /\ (r.trend = 0) <=> (~above /\ ~below)
            /\ ~(above /\ below)

\* a labeled set in which all three trends occur
C3_Witness == Labels(df_target) = Trends

\* C4: the split keeps the order: train followed by test is the labeled set,
\* test is the last fifth (rounded up), and no training timestamp is later
\* than a test timestamp
C4_ChronologicalSplit ==
    split # None =>
        /\ split.X_train \o split.X_test =
              [k \in 1..Len(df_target) |-> df_target[k].timestamp]
        /\ split.y_train \o split.y_test =
              [k \in 1..Len(df_target) |-> df_target[k].trend + 1]
        /\ Len(split.X_test) * TestDen >= Len(df_target)
        /\ (Len(split.X_test) - 1) * TestDen < Len(df_target)
        /\ \A i \in 1..Len(split.X_train) : \A j \in 1..Len(split.X_test) :
              split.X_train[i] <= split.X_test[j]

\* a split of a labeled set with rows on both sides
C4_Witness ==
    /\ split # None
    /\ Len(split.X_train) >= 40
    /\ Len(split.X_test) >= 10

\* C5: the "insufficient variation" error is raised exactly when the split
\* was made and its training partition has fewer than two classes; no model
\* is fitted then; the backend plays no part
C5_InsufficientVariation ==
    /\ (error = "insufficient variation") <=>
          (split # None /\ Cardinality(Range(split.y_train)) < 2)
    /\ error = "insufficient variation" =>
          (train_result = None /\ outcome = TDSE /\ result = None)
    /\ (split # None /\ Cardinality(Range(split.y_train)) >= 2) =>
          train_result # None

\* the error is raised although the whole labeled set has two classes
C5_Witness ==
    /\ error = "insufficient variation"
    /\ Cardinality(Labels(df_target)) >= 2

\* C6: once _train_model has been called, the "insufficient samples" error is
\* raised exactly when it was given fewer than 50 rows, and then nothing was
\* split or fitted
C6_InsufficientSamples ==
    /\ (df_target # <<>> /\ pc # "train") =>
          ((error = "insufficient samples") <=> (Len(df_target) < MinSamples))
    /\ error = "insufficient samples" =>
          /\ df_target # <<>>
          /\ split = None
          /\ train_result = None
          /\ outcome = TDSE

\* _train_model refused 49 rows or fewer
C6_Witness ==
    /\ error = "insufficient samples"
    /\ Len(df_target) > 0

\* C7: when the test partition holds a class the training partition lacks,
\* the request ends with a result whose report is the placeholder text
C7_UnseenTestClass ==
    (pc = "done" /\ train_result # None /\ TestTrends \ TrainTrends # {}) =>
        /\ result # None
        /\ result.classification_report = "placeholder"

\* C8: decoding undoes encoding for every trend of the training partition,
\* the decoded prediction is in {-1,0,1} and its label is never "Desconocido"
C8_DecodeUndoesEncode ==
    /\ train_result # None =>
          \A t \in TrainTrends :
              Decode(train_result.label_encoder,
                     Encode(train_result.label_encoder, t)) = t
    /\ pred # None => (pred.pred \in TrainTrends /\ pred.pred \in Trends)
    /\ result # None =>
          /\ result.trend_code = pred.pred
          /\ result.trend_label = TrendLabel(pred.pred)
          /\ result.trend_label # "Desconocido"

\* a result of xgboost whose encoder does not start at class 0
C8_Witness ==
    /\ result # None
    /\ train_result.label_encoder # NoEncoder
    /\ TrainTrends = {0, 1}
    /\ result.trend_code = 1

\* 60 daily bars, each close 0.5 % above the one before, profile "corto"
Uptrend60 ==
    /\ Len(bars) = 60
    /\ \A i \in 1..Len(bars) : bars[i].close = Price(i) /\ bars[i].aux
    /\ profile = "corto"

\* C9 as stated: the scenario ends with trend_label "Tendencia Alcista" and
\* a fair-value output
C9_UptrendScenario ==
    (Uptrend60 /\ pc = "done") =>
        /\ result # None
        /\ result.trend_label = "Tendencia Alcista"
        /\ result.fair_value # None

\* C9 amended: the scenario leaves 11 feature rows and 8 labeled rows, fewer
\* than the 50 that training requires: analyze_symbol raises the
\* "insufficient samples" error and returns no result
C9_UptrendInsufficient ==
    (Uptrend60 /\ pc = "done") =>
        /\ Len(df_ind) = 11
        /\ Len(df_target) = 8
        /\ Labels(df_target) = {1}
        /\ outcome = TDSE
        /\ error = "insufficient samples"
        /\ result = None
        /\ status = 400

C9_Witness == Uptrend60 /\ pc = "done"

\* a stage that had no data or too few rows
FetchStarved == bars = <<>>
IndicatorsStarved == df_raw # <<>> /\ AddIndicators(df_raw) = <<>>
LabelingStarved ==
    /\ df_ind # <<>>
    /\ params # None
    /\ Len(df_ind) <= params.future_days
TrainingStarved == df_target # <<>> /\ Len(df_target) < MinSamples
FairValueStarved == proba_map # None /\ FairValueRaises(df_raw)

Aborted == outcome = TDSE /\ status = 400 /\ result = None

LaterStagesUntouched ==
    /\ df_raw = <<>>
    /\ df_ind = <<>>
    /\ params = None
    /\ df_target = <<>>
    /\ split = None
    /\ train_result = None
    /\ pred = None
    /\ proba_map = None
    /\ fair_value = None
    /\ result = None
C11_UpstreamFailure ==
    /\ get_bars_calls = (IF pc = "build_df" THEN 0 ELSE 1)
    /\ (provider_error # NoException /\ pc # "build_df")
          => /\ pc \in {"respond", "done"}
             /\ outcome = TDSE
             /\ error = provider_error
             /\ LaterStagesUntouched
C11_Witness ==
    /\ provider_error = "Error al obtener barras"
    /\ pc = "done"
    /\ outcome = TDSE
    /\ error = "Error al obtener barras"
    /\ get_bars_calls = 1
    /\ status = 400

\* C12: concurrent analyze_symbol requests share no mutable state: in every
\* interleaving a request works on the objects it built itself from its own
\* bars, and ends the way it can end when it runs alone on those bars
OwnObjects(r) ==
    LET l == creq[r]
        o == cheap[r]
    IN  /\ (l.pc \notin {"build_df", "done"}) => o.df_raw = l.bars
        /\ (l.pc \in {"predict", "proba", "fair_value"})
              => /\ o.split = TrainTestSplit(o.df_target)
                 /\ o.train_result =
                       FitModel(l.model_type, o.split, Len(o.df_target))
C12_RequestsIndependent ==
    \A r \in DOMAIN creq :
        /\ OwnObjects(r)
        /\ creq[r].pc = "done"
              => [outcome |-> creq[r].outcome, error |-> creq[r].error,
                  result |-> creq[r].result]
                    \in AloneOutcomes(creq[r].bars, creq[r].profile,
                                      creq[r].model_type)
C12_Witness ==
    /\ DOMAIN creq = Requests
    /\ creq[1].outcome = "result"
    /\ creq[2].outcome = "result"
    /\ creq[1].bars # creq[2].bars
    /\ creq[1].result.trend_code # creq[2].result.trend_code
    /\ cheap[1].train_result # cheap[2].train_result

\* C13: calculate_fair_value on fewer than 20 bars (the empty frame too)
\* raises the FairValueServiceException whose message names the 20-bar
\* minimum, and has computed no indicator by then
C13_MinimumBars ==
    (fv_given # None /\ Len(fv_given.rows) < 20 /\ fv_pc # "check")
       => /\ fv_pc = "raised"
          /\ fv_error = "Se requieren al menos 20 barras para calcular fair value"
          /\ fv_df = None
          /\ fv_out = None
C13_Witness ==
    /\ fv_given # None
    /\ Len(fv_given.rows) = 10
    /\ fv_pc = "raised"
    /\ fv_calls = 1
    /\ fv_error = FvMinBarsMessage
    /\ fv_df = None

\* C14: the recommendation is decided by total_score = buy_score -
\* sell_score alone: >= 3 COMPRA FUERTE, 1 or 2 COMPRA, <= -3 VENTA FUERTE,
\* -1 or -2 VENTA, 0 MANTENER
C14_Recommendation ==
    sig_out # None =>
       LET t == sig_out.total_score
           r == sig_out.recommendation
       IN  /\ t = sig_out.buy_score - sig_out.sell_score
           /\ (t >= 3) => r = "COMPRA FUERTE"
           /\ (t \in {1, 2}) => r = "COMPRA"
           /\ (t <= -3) => r = "VENTA FUERTE"
           /\ (t \in {-1, -2}) => r = "VENTA"
           /\ (t = 0) => r = "MANTENER"
C14_Witness ==
    /\ sig_out # None
    /\ sig_out.total_score = -3
    /\ sig_out.recommendation = "VENTA FUERTE"

\* C15: each of the five methods gives one verdict and adds to one of the
\* three scores: Z-Score weighs 2 from |z| = 1.5 and 1 from |z| = 1.0,
\* Soporte/Resistencia 2, every other vote 1; the signals list has five
\* entries and buy_score and sell_score stay within 0..7
Methods == <<"Z-Score", "ATR", "EMA", "Soporte/Resistencia", "Cruce EMA">>
VoteWeight(k, z) ==
    IF k = 1 THEN (IF Abs(z) >= 15 THEN 2 ELSE 1)
    ELSE IF k = 4 THEN 2
    ELSE 1
ScoreOf(sg, z, verdicts) ==
    SumSeq([k \in 1..Len(sg) |->
               IF sg[k].signal \in verdicts THEN VoteWeight(k, z) ELSE 0])
C15_Votes ==
    sig_out # None =>
       LET sg == sig_out.signals
           z == sig_args.zscore
       IN  /\ Len(sg) = 5
           /\ \A k \in 1..5 :
                 /\ sg[k].method = Methods[k]
                 /\ sg[k].signal \in
                       (IF k = 5 THEN {"ALCISTA", "BAJISTA", "NEUTRAL"}
                        ELSE {"COMPRA", "VENTA", "NEUTRAL"})
           /\ (sg[1].signal # "NEUTRAL") <=> (Abs(z) >= 10)
           /\ sig_out.buy_score = ScoreOf(sg, z, {"COMPRA", "ALCISTA"})
           /\ sig_out.sell_score = ScoreOf(sg, z, {"VENTA", "BAJISTA"})
           /\ sig_out.neutral_score =
                 Cardinality({k \in 1..5 : sg[k].signal = "NEUTRAL"})
           /\ sig_out.buy_score \in 0..7
           /\ sig_out.sell_score \in 0..7
C15_Witness ==
    /\ sig_out # None
    /\ sig_out.buy_score = 7
    /\ sig_out.sell_score = 0
    /\ sig_out.neutral_score = 0
    /\ Len(sig_out.signals) = 5

\* C16: calculate_fair_value called twice on the same frame returns (or
\* raises) the same thing, leaves the caller's frame as it was, and starts
\* every call with nothing left from the call before
C16_Idempotent ==
    /\ fv_input = fv_given
    /\ (fv_calls = 2) => fv_first = [out |-> fv_out, error |-> fv_error]
    /\ (fv_pc = "check") =>
          (fv_df = None /\ fv_out = None /\ fv_error = NoException)
C16_Witness ==
    /\ fv_calls = 2
    /\ fv_pc = "returned"
    /\ fv_out # None
    /\ fv_first.out = fv_out
    /\ fv_out.signals.recommendation # "MANTENER"

\* C17: the profile decides (future_days, up_threshold, down_threshold):
\* intradia (1, 0.003, -0.003), largo (10, 0.03, -0.03), corto (3, 0.01,
\* -0.01); a missing or unknown profile counts as corto, and the result
\* reports one of the three rows (thresholds in thousandths)
ProfileRow(name) ==
    IF name = "intradia" THEN <<"intradia", 1, 3, -3>>
    ELSE IF name = "largo" THEN <<"largo", 10, 30, -30>>
    ELSE <<"corto", 3, 10, -10>>
ParamsRow(r) ==
    <<r.profile_key, r.future_days, r.up_threshold, r.down_threshold>>
C17_ProfileTable ==
    /\ params # None =>
          /\ (profile \in Profiles) => ParamsRow(params) = ProfileRow(profile)
          /\ (profile \in {NoneValue, "", "swing", "intradía"})
                => ParamsRow(params) = ProfileRow("corto")
          /\ ParamsRow(params) \in {ProfileRow(n) : n \in Profiles}
    /\ result # None =>
          /\ <<result.profile, result.future_days, result.up_threshold,
               result.down_threshold>> \in {ProfileRow(n) : n \in Profiles}
          /\ <<result.profile, result.future_days, result.up_threshold,
               result.down_threshold>> = ParamsRow(params)
C17_Witness ==
    /\ profile = "swing"
    /\ result # None
    /\ result.profile = "corto"
    /\ result.future_days = 3
    /\ result.up_threshold = 10
    /\ result.down_threshold = -10

\* C18: the trend preferences are a per-user store with defaults: without a
\* document get_preferences returns corto / xgboost; after any calls it
\* returns what the user's last set_preferences that did not raise returned;
\* what is stored is always one of the three profiles and one of the two
\* model types; a pair that is already of that form is stored as given
PrefProfiles == {"intradia", "corto", "largo"}
PrefModelTypes == {"xgboost", "random_forest"}
C18_PreferenceStore ==
    /\ \A u \in DOMAIN pref_db :
          /\ pref_db[u].profile \in PrefProfiles
          /\ pref_db[u].model_type \in PrefModelTypes
          /\ u \in DOMAIN pref_last
          /\ pref_db[u] = pref_last[u].saved
          /\ (pref_last[u].profile \in PrefProfiles
                 /\ pref_last[u].model_type \in PrefModelTypes)
                => pref_db[u] = [profile |-> pref_last[u].profile,
                                 model_type |-> pref_last[u].model_type]
    /\ pref_got # None =>
          pref_got.prefs =
             (IF pref_got.last # None THEN pref_got.last.saved
              ELSE [profile |-> "corto", model_type |-> "xgboost"])
C18_Witness ==
    /\ pref_got # None
    /\ pref_got.user_id = "u1"
    /\ pref_got.last # None
    /\ pref_got.last.profile = " Intradia "
    /\ pref_got.last.model_type = "RF"
    /\ DOMAIN pref_db = {"u1", "u2"}
    /\ pref_got.prefs = [profile |-> "intradia", model_type |-> "random_forest"]
    /\ pref_ops = 3

\* C19: submit_order given a MARKET order (a symbol, a quantity, side BUY,
\* a supported time in force) sends one market order request to the broker
\* and returns an Order with an order_id, the same symbol and qty > 0; it
\* does not fail before the broker is reached
MarketBuy(order) ==
    /\ order.order_type = "MARKET"
    /\ order.side = "BUY"
    /\ TifSupported(order)
C19_MarketOrderSubmitted ==
    (ord_in # None /\ MarketBuy(ord_in) /\ ord_pc \in {"returned", "raised"})
       => /\ Len(ord_sent) = 1
          /\ ord_sent[1].kind = "MARKET"
          /\ ord_pc = "returned" =>
                /\ ord_out.order_id # NoneValue
                /\ ord_out.symbol = ord_in.symbol
                /\ ord_out.qty > 0

\* C20: automatic swing trading places at most one order per user and symbol
\* on a UTC day, whatever the sequence and interleaving of the price
\* callbacks of the user's sessions, and none while auto-trading is disabled
C20_OncePerDay ==
    /\ ~SWING_AUTOTRADE_ENABLED => swing_orders = <<>>
    /\ \A i, j \in 1..Len(swing_orders) :
          (/\ i < j
           /\ swing_orders[i].user = swing_orders[j].user
           /\ swing_orders[i].symbol = swing_orders[j].symbol)
          => swing_orders[i].day # swing_orders[j].day

(***************************************************************************)
(* the service lock: bar handler against unsubscribe                       *)
(***************************************************************************)

\* what the steps below leave alone
lockFrame == <<SWING_AUTOTRADE_ENABLED, utc_day, auto_swing_state,
               swing_orders, positions, authenticated, client_subscriptions,
               disconnected, sess_ops, trendVars, fvVars, sigVars, concVars,
               prefVars, ordVars, tradeVars>>

InitLock ==
    /\ InitSwing
    /\ SWING_AUTOTRADE_ENABLED = FALSE

\* subscribe_symbol_for_user, the whole call inside "with self._lock"
LockSubscribe(sid, sym) ==
    /\ lock = ""
    /\ sub_ops < MaxSubOps
    /\ sub_ops' = sub_ops + 1
    /\ SubscribeSymbolForUser(sid, sym)
    /\ UNCHANGED <<lock, unsub, lockFrame>>

\* unsubscribe_symbol_for_user enters "with self._lock"
LockUnsubscribeCall(sid, sym) ==
    /\ lock = ""
    /\ unsub = <<>>
    /\ sub_ops < MaxSubOps
    /\ sid \in Elems(user_callbacks)
    /\ sub_ops' = sub_ops + 1
    /\ lock' = sid
    /\ unsub' = <<sid, sym>>
    /\ UNCHANGED <<botVars, lockFrame>>

\* the body of unsubscribe_symbol_for_user runs to its end, stream.stop()
\* included, and the lock is released
LockUnsubscribeReturn ==
    /\ unsub # <<>>
    /\ UnsubscribeSymbolForUser(unsub[1], unsub[2])
    /\ lock' = ""
    /\ unsub' = <<>>
    /\ UNCHANGED <<sub_ops, lockFrame>>

\* a bar of a subscribed symbol is delivered: handler(bar) starts on the
\* stream's thread and comes to "with self._lock"
LockBar(id, sym_bar) ==
    /\ stream[id].status = "running"
    /\ stream[id].pc = "idle"
    /\ sym_bar \in stream[id].bars
    /\ stream' = [stream EXCEPT ![id].pc = "lock", ![id].symbol = sym_bar]
    /\ UNCHANGED <<user_callbacks, user_symbols, user_streams,
                   user_stream_symbols, sub_ops, lock, unsub, lockFrame>>

\* the handler gets the lock, collects its targets and releases the lock
LockCollect(id) ==
    /\ stream[id].pc = "lock"
    /\ lock = ""
    /\ stream' = [stream EXCEPT
                    ![id].targets = Targets(id, stream[id].symbol),
                    ![id].pc = IF Targets(id, stream[id].symbol) = <<>>
                               THEN "idle" ELSE "callback"]
    /\ UNCHANGED <<user_callbacks, user_symbols, user_streams,
                   user_stream_symbols, sub_ops, lock, unsub, lockFrame>>

\* the handler calls the next collected callback, outside the lock
LockCallback(id) ==
    /\ stream[id].pc = "callback"
    /\ stream' = Return(id)
    /\ UNCHANGED <<user_callbacks, user_symbols, user_streams,
                   user_stream_symbols, sub_ops, lock, unsub, lockFrame>>

\* the finally block of run_stream_for_user, inside "with self._lock"
LockStreamExit(id) ==
    /\ lock = ""
    /\ StreamExit(id)

NextLock ==
    \/ \E sid \in Sids, sym \in SwingSymbols :
          \/ LockSubscribe(sid, sym)
          \/ LockUnsubscribeCall(sid, sym)
    \/ LockUnsubscribeReturn
    \/ \E id \in StreamIds :
          \/ \E sym_bar \in SwingSymbols : LockBar(id, sym_bar)
          \/ LockCollect(id)
          \/ LockCallback(id)
          \/ LockStreamExit(id)

SpecLock == InitLock /\ [][NextLock]_vars

(***************************************************************************)
(* TradingService: validation and submission of orders                     *)
(***************************************************************************)

\* config.MIN_ORDER_SIZE and config.MAX_ORDER_SIZE, the defaults
MIN_ORDER_SIZE == 1
MAX_ORDER_SIZE == 100000

\* the operations of TradingService that create orders
TradeOps == {"market", "limit", "swing", "stop", "stop_limit",
             "trailing_stop", "bracket"}
\* the arguments: quantities, prices, the user; and what the broker
\* answers to get_last_quote and get_account (NoPrice: the call raises
\* AlpacaServiceException)
TradeQtys == {0, 1, 10, 2000}
TradePrices == {0, 90, 100, 110}
TradeUsers == {"u1", "u2"}
TradeQuotes == {NoPrice, 100}
TradeBuyingPowers == {NoPrice, 500, 1000000}

\* a call with the arguments its operation does not have left out
BaseCall(op, qty, side, user) ==
    [op |-> op, qty |-> qty, side |-> side, user |-> user,
     limit_price |-> NoPrice, stop_price |-> NoPrice,
     take_profit |-> NoPrice, stop_loss |-> NoPrice,
     trail_price |-> NoPrice, quote |-> NoPrice, buying_power |-> NoPrice]

TradeCalls ==
    UNION {
      {[BaseCall("market", q, sd, u) EXCEPT !.quote = qt,
                                           !.buying_power = bp] :
          qt \in TradeQuotes, bp \in TradeBuyingPowers}
      \cup
      {[BaseCall("limit", q, sd, u) EXCEPT !.limit_price = p,
                                          !.buying_power = bp] :
          p \in TradePrices, bp \in TradeBuyingPowers}
      \cup
      {[BaseCall("swing", q, "BUY", u) EXCEPT !.limit_price = p,
                                             !.take_profit = tp,
                                             !.stop_loss = sl,
                                             !.buying_power = bp] :
          p \in TradePrices, tp \in TradePrices, sl \in TradePrices,
          bp \in TradeBuyingPowers}
      \cup
      {[BaseCall("stop", q, sd, u) EXCEPT !.stop_price = p] :
          p \in TradePrices}
      \cup
      {[BaseCall("stop_limit", q, sd, u) EXCEPT !.stop_price = p,
                                               !.limit_price = lp] :
          p \in TradePrices, lp \in TradePrices}
      \cup
      {[BaseCall("trailing_stop", q, sd, u) EXCEPT !.trail_price = p] :
          p \in TradePrices}
      \cup
      {[BaseCall("bracket", q, sd, u) EXCEPT !.limit_price = p,
                                            !.take_profit = tp,
                                            !.stop_loss = sl] :
          p \in {0, 100}, tp \in {0, 110}, sl \in {0, 90}}
      : q \in TradeQtys, sd \in OrderSides, u \in TradeUsers}

\* raise TradingServiceException(message)
TradingServiceException(message) == <<"TradingServiceException", message>>

\* the first exception of a list of checks, or <<>>
FirstError(checks) ==
    IF \A i \in 1..Len(checks) : checks[i] = <<>> THEN <<>>
    ELSE checks[CHOOSE i \in 1..Len(checks) :
                   /\ checks[i] # <<>>
                   /\ \A j \in 1..(i - 1) : checks[j] = <<>>]

\* variant of ValidateOrderSize: any order value is accepted
ValidateOrderSizeAny(qty, price) == <<>>

\* _validate_order_size
ValidateOrderSize(qty, price) ==
    LET order_value == qty * price
    IN  IF order_value < MIN_ORDER_SIZE
        THEN TradingServiceException("menor al minimo permitido")
        ELSE IF order_value > MAX_ORDER_SIZE
        THEN TradingServiceException("excede el maximo permitido")
        ELSE <<>>

\* _validate_buying_power
ValidateBuyingPower(order_value, buying_power) ==
    IF buying_power = NoPrice
    THEN TradingServiceException("Error al validar poder de compra")
    ELSE IF order_value > buying_power
    THEN TradingServiceException("Poder de compra insuficiente")
    ELSE <<>>

\* the checks of create_market_order / create_limit_order before the Order
\* is built, at the price they use
SizeAndPower(c, price) ==
    FirstError(<<ValidateOrderSize(c.qty, price),
                 IF c.side = "BUY"
                 THEN ValidateBuyingPower(c.qty * price, c.buying_power)
                 ELSE <<>>>>)

\* if <value> <= 0: raise TradingServiceException(message)
Positive(value, message) ==
    IF value <= 0 THEN TradingServiceException(message) ELSE <<>>

\* the exception an operation raises before it submits anything, or <<>>
TradeChecks(c) ==
    CASE c.op = "market" ->
           IF c.quote = NoPrice
           THEN TradingServiceException("Error al crear orden")
           ELSE SizeAndPower(c, c.quote)
      [] c.op = "limit" -> SizeAndPower(c, c.limit_price)
      [] c.op = "swing" ->
           FirstError(<<
             IF c.limit_price <= 0 \/ c.take_profit <= 0 \/ c.stop_loss <= 0
             THEN TradingServiceException(
                      "Los precios deben ser mayores a cero")
             ELSE <<>>,
             IF c.take_profit <= c.limit_price
             THEN TradingServiceException(
                      "El precio de take profit debe ser mayor")
             ELSE <<>>,
             IF c.stop_loss >= c.limit_price
             THEN TradingServiceException(
                      "El precio de stop loss debe ser menor")
             ELSE <<>>,
             SizeAndPower(c, c.limit_price)>>)
      [] c.op = "stop" ->
           FirstError(<<Positive(c.qty, "La cantidad"),
                        Positive(c.stop_price, "El precio de stop")>>)
      [] c.op = "stop_limit" ->
           FirstError(<<Positive(c.qty, "La cantidad"),
                        Positive(c.stop_price, "El precio de stop"),
                        Positive(c.limit_price, "El precio limite")>>)
      [] c.op = "trailing_stop" ->
           FirstError(<<Positive(c.qty, "La cantidad"),
                        IF c.trail_price = 0
                        THEN TradingServiceException(
                                 "Debe especificar trail_price")
                        ELSE <<>>>>)
      [] c.op = "bracket" ->
           FirstError(<<Positive(c.qty, "La cantidad"),
                        Positive(c.limit_price, "El precio limite"),
                        Positive(c.take_profit, "El precio de take profit"),
                        Positive(c.stop_loss, "El precio de stop loss")>>)

\* the user argument of the call of the broker service: create_limit_order
\* calls submit_order(order) without it
PassedUser(c) ==
    IF c.op \in {"limit", "swing"} THEN NoneValue ELSE c.user

\* the call of AlpacaService an operation makes once its checks have
\* passed: submit_order(order, user) with an Order, or
\* submit_order_request(request, user) with a request of the broker
Submission(c) ==
    [via |-> IF c.op \in {"market", "limit", "swing"}
             THEN "submit_order" ELSE "submit_order_request",
     order_type |-> CASE c.op = "market" -> "MARKET"
                      [] c.op \in {"limit", "swing", "bracket"} -> "LIMIT"
                      [] c.op = "stop" -> "STOP"
                      [] c.op = "stop_limit" -> "STOP_LIMIT"
                      [] c.op = "trailing_stop" -> "TRAILING_STOP",
     qty |-> c.qty,
     side |-> c.side,
     limit_price |-> c.limit_price,
     stop_price |-> c.stop_price,
     time_in_force |-> IF c.op \in {"market", "limit", "swing"}
                       THEN "gtc" ELSE "DAY",
     user |-> PassedUser(c)]

\* the Order that submit_order receives
OrderOf(s) ==
    [symbol |-> "AAPL", qty |-> s.qty, side |-> s.side,
     order_type |-> s.order_type, time_in_force |-> s.time_in_force,
     limit_price |-> s.limit_price, stop_price |-> s.stop_price,
     order_id |-> NoneValue]

\* _get_trading_client_for_user: the account of the user passed, or the
\* default one
AccountOf(user) == IF user = NoneValue THEN "default" ELSE user

InitTrading ==
    /\ trade_call \in TradeCalls
    /\ trade_pc = "start"
    /\ trade_checked = None
    /\ trade_submitted = <<>>
    /\ trade_out = None
    /\ trade_error = <<>>
    /\ TrendIdle
    /\ FvIdle
    /\ SigIdle
    /\ ConcIdle
    /\ PrefIdle
    /\ OrdIdle
    /\ SwingIdle
    /\ WsIdle

\* what a call of TradingService leaves alone
tradeFrame == <<trendVars, fvVars, sigVars, concVars, prefVars, ordVars,
                swingVars, wsVars>>

\* the operation up to the call of the broker service: its checks, and the
\* order or request it builds
TradeValidate ==
    /\ trade_pc = "start"
    /\ IF TradeChecks(trade_call) # <<>>
       THEN /\ trade_error' = TradeChecks(trade_call)
            /\ trade_pc' = "done"
            /\ UNCHANGED trade_checked
       ELSE /\ trade_checked' = Submission(trade_call)
            /\ trade_pc' = "submit"
            /\ UNCHANGED trade_error
    /\ UNCHANGED <<trade_call, trade_submitted, trade_out, tradeFrame>>

\* the operation calls submit_order or submit_order_request
TradeSubmit ==
    /\ trade_pc = "submit"
    /\ trade_submitted' = Append(trade_submitted, trade_checked)
    /\ trade_pc' = "broker"
    /\ UNCHANGED <<trade_call, trade_checked, trade_out, trade_error,
                   tradeFrame>>

\* the call of the broker service ends: submit_order raises while it
\* builds the request of a MARKET or LIMIT order; else the broker accepts
\* or refuses, and the operation returns the order (create_swing_trade:
\* the entry order and the two target prices) or raises
TradeResult(accepted) ==
    LET s == trade_submitted[Len(trade_submitted)]
        raises == \/ s.via = "submit_order" /\ RequestError(OrderOf(s)) # <<>>
                  \/ ~accepted
        order == [OrderOf(s) EXCEPT !.order_id = "id1"]
    IN  /\ trade_pc = "broker"
        /\ IF raises
           THEN /\ trade_error' =
                      TradingServiceException("Error al crear orden")
                /\ UNCHANGED trade_out
           ELSE /\ trade_out' =
                      IF trade_call.op = "swing"
                      THEN [entry |-> order,
                            take_profit_target |-> trade_call.take_profit,
                            stop_loss_target |-> trade_call.stop_loss]
                      ELSE order
                /\ UNCHANGED trade_error
        /\ trade_pc' = "done"
        /\ UNCHANGED <<trade_call, trade_checked, trade_submitted,
                       tradeFrame>>

NextTrading ==
    \/ TradeValidate
    \/ TradeSubmit
    \/ \E accepted \in BOOLEAN : TradeResult(accepted)

SpecTrading == InitTrading /\ [][NextTrading]_vars

\* the sessions of user u that have a callback
Subscribers(callbacks, u) == {s \in Elems(callbacks) : ws_clients[s] = u}

C23_StreamSymbols ==
    \A u \in SwingUsers :
        user_streams[u] # NoStream
        => stream[user_streams[u]].bars =
              {user_symbols[s] : s \in Subscribers(user_callbacks, u)}

\* C24: the exit of a stopped stream's thread leaves a newer stream of the
\* user alone: a stream that has not been stopped stays registered and
\* keeps the callbacks of its subscribers
C24_ExitKeepsNewStream ==
    \A id \in StreamIds :
        stream[id].status = "running"
        => /\ user_streams[stream[id].user] = id
           /\ Subscribers(user_callbacks, stream[id].user) # {}

\* C26: nothing of a disconnected session remains: no entry in ws_clients
\* or client_subscriptions, no callback; and a user's stream is registered
\* only while a connected session of the user has a callback
C26_DisconnectCleans ==
    /\ \A sid \in disconnected :
          /\ sid \notin authenticated
          /\ client_subscriptions[sid] = NoSymbol
          /\ sid \notin Elems(user_callbacks)
    /\ \A u \in SwingUsers :
          user_streams[u] # NoStream
          => Subscribers(user_callbacks, u) \ disconnected # {}

\* C25: an unsubscribe call that holds the lock can always run to its end:
\* it never waits in stream.stop() for a stream whose thread is waiting in
\* the bar handler for the lock
C25_NoDeadlock ==
    \A id \in StreamIds :
        (unsub # <<>> /\ lock = unsub[1] /\ stream[id].pc = "lock")
        => ENABLED LockUnsubscribeReturn

\* the checks of a market, limit or swing call, stated on its arguments
\* and on the broker's answers
TradePrice(c) == IF c.op = "market" THEN c.quote ELSE c.limit_price
TradeSizeOk(c) ==
    /\ c.op = "market" => c.quote # NoPrice
    /\ c.qty * TradePrice(c) >= MIN_ORDER_SIZE
    /\ c.qty * TradePrice(c) <= MAX_ORDER_SIZE
TradePowerOk(c) ==
    c.side = "BUY"
    => c.buying_power # NoPrice /\ c.qty * TradePrice(c) <= c.buying_power
TradePricesOk(c) ==
    c.op = "swing"
    => /\ c.limit_price > 0 /\ c.take_profit > 0 /\ c.stop_loss > 0
       /\ c.take_profit > c.limit_price
       /\ c.stop_loss < c.limit_price
TradeOk(c) == TradeSizeOk(c) /\ TradePowerOk(c) /\ TradePricesOk(c)

\* C22: create_swing_trade with valid prices that pass the size and
\* buying-power checks ends with an entry, a take-profit and a stop-loss
\* order submitted and returns them
C22_SwingTradeThreeOrders ==
    (trade_call.op = "swing" /\ trade_pc = "done" /\ TradeOk(trade_call))
    => /\ trade_error = <<>>
       /\ Len(trade_submitted) = 3
       /\ trade_out # None

\* C27: every submission of an order-creating operation carries the user
\* the operation was called with, so that the order goes to that user's
\* account
C27_UserPassed ==
    \A i \in 1..Len(trade_submitted) :
        /\ trade_submitted[i].user = trade_call.user
        /\ AccountOf(trade_submitted[i].user) = trade_call.user

\* C28: a market, limit or swing call submits only after its checks have
\* passed (order value within [MIN_ORDER_SIZE, MAX_ORDER_SIZE], within the
\* buying power for a BUY, swing prices positive and ordered), and a call
\* whose check fails ends with TradingServiceException and has submitted
\* nothing
C28_ValidationPrecedesSubmission ==
    trade_call.op \in {"market", "limit", "swing"}
    => /\ trade_submitted # <<>> => TradeOk(trade_call)
       /\ (trade_pc = "done" /\ ~TradeOk(trade_call))
             => /\ trade_submitted = <<>>
                /\ trade_error # <<>>
                /\ trade_error[1] = "TradingServiceException"
C28_Witness ==
    /\ trade_call.op = "market"
    /\ trade_call.side = "BUY"
    /\ trade_call.qty = 1
    /\ trade_call.buying_power = 500
    /\ trade_pc = "broker"
    /\ Len(trade_submitted) = 1

\* C29: the row that analyze_symbol scores is the latest feature row, and
\* with a horizon of at least one day it is in neither partition of the
\* split; the labeled rows are the feature rows without the last
\* future_days of them, and n_samples is their number
C29_ScoredRowUnlabeled ==
    /\ pred # None
       => /\ \E i \in 1..Len(df_ind) : df_ind[i].timestamp = pred.last_row
          /\ \A i \in 1..Len(df_ind) : df_ind[i].timestamp <= pred.last_row
          /\ params.future_days >= 1
             => pred.last_row \notin
                   Range(split.X_train) \cup Range(split.X_test)
    /\ params # None
       => /\ Len(df_target) = Max2(Len(df_ind) - params.future_days, 0)
          /\ \A k \in 1..Len(df_target) :
                df_target[k].timestamp = df_ind[k].timestamp
    /\ train_result # None
       => train_result.n_samples = Len(df_ind) - params.future_days
C29_Witness ==
    /\ pred # None
    /\ result # None
    /\ params.future_days = TREND_FUTURE_DAYS
    /\ Len(df_target) >= MinSamples
====
